---- MODULE Spec2Model ----
(***************************************************************************)
(* Model of the GTM pipeline: the deduplicator (enrichment/deduplicator.py), *)
(* the lead router (routing/lead_router.py), the Apollo client              *)
(* (enrichment/apollo_enricher.py), the persona checks                      *)
(* (persona_generation/confidence_checker.py) and the message builder       *)
(* (outreach/message_builder.py).                                           *)
(*                                                                          *)
(* Text is a sequence of one-character strings, so that the regular         *)
(* expressions and the str methods of the source can be modelled character  *)
(* by character.  A data-frame cell is such a sequence or one of the two    *)
(* null cells None and NaN, which the source turns into text with str().    *)
(***************************************************************************)
EXTENDS Integers, Sequences, FiniteSets, TLC

VARIABLES
    strategy,        \* DEDUP_SETTINGS["merge_strategy"]
    df,              \* the input frame after reset_index: rows 1..Len(df)
    i,               \* the row the loop of find_duplicates is at
    kept_indices,    \* list of kept row indices
    dup_records,     \* list of flagged rows with dup_reason and kept_id
    processed_keys,  \* insertion-ordered dict: <<[key, idx], ...>>
    clean_df,        \* returned clean frame (set when the loop is over)
    dups_df,         \* returned duplicates frame
    pc,              \* "loop" while find_duplicates iterates, then "done"
    raw,             \* a cell handed to normalize_name / normalize_company
    once,            \* its normalisation
    twice,           \* the normalisation of its normalisation
    npc,             \* "idle", "name" or "company": which normaliser ran
    team,            \* LeadRouter.team: role -> list of members
    assignment_count,\* LeadRouter.assignment_count: owner name -> count
    company_owner,   \* LeadRouter.company_owner: company root -> owner name
    sequence_ids,    \* LeadRouter.sequence_ids
    routed,          \* the contact of the latest route() call
    result,          \* what that call returned
    raised,          \* the exception it, or route_all, raised, "" otherwise
    flagged,         \* owners returned so far with capacity_overflow = True
    calls,           \* route() calls made on this router
    rows,            \* route_all: the frame after sort_values; the list of a run
    results,         \* route_all: the list of merged rows
    rpc,             \* "idle", "calls", "run", "call", "loop", "done" or "raised"
    csv,             \* the CSV files on disk: path -> frame
    call,            \* the entry point called, with its arguments
    returned,        \* the frame it returned
    mraised,         \* the exception it raised, "" when it returned
    mpc,             \* "idle", "call" or "done"
    responses,       \* what the Apollo server answers, request by request
    json_error,      \* the class of the error resp.json() raises
    attempt,         \* people_match: the loop variable
    request_count,   \* ApolloClient._request_count
    slept,           \* seconds given to time.sleep so far
    person,          \* what people_match returned
    export_email,    \* people_match's argument of that name
    araised,         \* the exception it raised, "" otherwise
    apc,             \* "idle", "loop" or "done"
    llm_output,      \* the raw LLM output given to validate_persona
    lead,            \* the contact given to validate_persona
    persona,         \* what validate_persona returned
    master,          \* build_all_messages: the rows of the master file
    head_limit,      \* build_all_messages: its argument limit, 0 for None
    sorted_df,       \* build_all_messages: the frame read, sorted and cut
    built,           \* build_all_messages: the list results
    out_df,          \* build_all_messages: the frame returned
    oraised,         \* the exception raised, "" otherwise
    opc              \* "idle", "persona", "validated", "call", "loop", "done", "raised"

vars == <<strategy, df, i, kept_indices, dup_records, processed_keys,
          clean_df, dups_df, pc, raw, once, twice, npc,
          team, assignment_count, company_owner, sequence_ids, routed,
          result, raised, flagged, calls, rows, results, rpc,
          csv, call, returned, mraised, mpc,
          responses, json_error, attempt, request_count, slept, person,
          export_email, araised, apc,
          llm_output, lead, persona, master, head_limit, sorted_df, built,
          out_df, oraised, opc>>

dedup_vars == <<strategy, df, i, kept_indices, dup_records, processed_keys,
                clean_df, dups_df, pc>>

norm_vars == <<raw, once, twice, npc>>

router_vars == <<team, assignment_count, company_owner, sequence_ids, routed,
                 result, raised, flagged, calls, rows, results, rpc>>

merge_vars == <<csv, call, returned, mraised, mpc>>

apollo_vars == <<responses, json_error, attempt, request_count, slept, person,
                 export_email, araised, apc>>

outreach_vars == <<llm_output, lead, persona, master, head_limit, sorted_df,
                   built, out_df, oraised, opc>>

\* no deduplicator entry point has been called
MergeIdle ==
    /\ csv = <<>>
    /\ call = <<>>
    /\ returned = <<>>
    /\ mraised = ""
    /\ mpc = "idle"

\* no Apollo client exists
ApolloIdle ==
    /\ responses = <<>>
    /\ json_error = ""
    /\ attempt = 0
    /\ request_count = 0
    /\ slept = 0
    /\ person = <<>>
    /\ export_email = FALSE
    /\ araised = ""
    /\ apc = "idle"

\* no persona is validated and no message is built
OutreachIdle ==
    /\ llm_output = <<>>
    /\ lead = <<>>
    /\ persona = <<>>
    /\ master = <<>>
    /\ head_limit = 0
    /\ sorted_df = <<>>
    /\ built = <<>>
    /\ out_df = <<>>
    /\ oraised = ""
    /\ opc = "idle"

(***************************************************************************)
(* Bounds of the model.                                                     *)
(***************************************************************************)
MaxBatch == 3        \* rows in an input batch
MaxIcp == 2          \* icp_score ranges over 1..MaxIcp
MaxStrLen == 4       \* length of the enumerated cells given to the normalisers

(***************************************************************************)
(* Characters.                                                              *)
(***************************************************************************)
Lowercase ==
    <<"a","b","c","d","e","f","g","h","i","j","k","l","m",
      "n","o","p","q","r","s","t","u","v","w","x","y","z">>

Uppercase ==
    <<"A","B","C","D","E","F","G","H","I","J","K","L","M",
      "N","O","P","Q","R","S","T","U","V","W","X","Y","Z">>

Digits == {"0","1","2","3","4","5","6","7","8","9"}

\* the characters of str.isspace() that a string cannot hold are tokens
VT == "<\\v>"
FS == "<\\x1c>"
GS == "<\\x1d>"
RS == "<\\x1e>"
US == "<\\x1f>"

\* the whitespace beyond ASCII: U+0085, U+00A0, U+1680, U+2000..U+200A,
\* U+2028, U+2029, U+202F, U+205F, U+3000
UnicodeSpaces ==
    {"<U+0085>", "<U+00A0>", "<U+1680>", "<U+2000>", "<U+2001>", "<U+2002>",
     "<U+2003>", "<U+2004>", "<U+2005>", "<U+2006>", "<U+2007>", "<U+2008>",
     "<U+2009>", "<U+200A>", "<U+2028>", "<U+2029>", "<U+202F>", "<U+205F>",
     "<U+3000>"}

\* \s of the re module on a str pattern, and the characters str.strip() and
\* str.split() take: those with str.isspace()
Whitespace ==
    {" ", "\t", "\n", "\r", "\f", VT, FS, GS, RS, US} \cup UnicodeSpaces

Range(s) == {s[k] : k \in 1..Len(s)}

\* \w of the re module, on ASCII text
WordChars == Range(Lowercase) \cup Range(Uppercase) \cup Digits \cup {"_"}

IsWord(c) == c \in WordChars

IsSpace(c) == c \in Whitespace

\* str.lower() on one character
ToLower ==
    [c \in Range(Uppercase) |-> Lowercase[CHOOSE k \in 1..Len(Uppercase) : Uppercase[k] = c]]

LowerChar(c) == IF c \in DOMAIN ToLower THEN ToLower[c] ELSE c

Lower(s) == [k \in 1..Len(s) |-> LowerChar(s[k])]

\* index of the first character at or after p that is not whitespace
\* (Len(s) + 1 when there is none)
RECURSIVE SkipSpace(_, _)
SkipSpace(s, p) ==
    IF p > Len(s) \/ ~IsSpace(s[p]) THEN p ELSE SkipSpace(s, p + 1)

\* index of the last character at or before p that is not whitespace (0 when none)
RECURSIVE SkipSpaceBack(_, _)
SkipSpaceBack(s, p) ==
    IF p < 1 \/ ~IsSpace(s[p]) THEN p ELSE SkipSpaceBack(s, p - 1)

\* str.strip()
Strip(s) == SubSeq(s, SkipSpace(s, 1), SkipSpaceBack(s, Len(s)))

\* case-insensitive match of the lowercase word w in s at index p
MatchAt(s, p, w) ==
    /\ p + Len(w) - 1 <= Len(s)
    /\ \A k \in 1..Len(w) : LowerChar(s[p + k - 1]) = w[k]

\* \b between s[p-1] and s[p]
Boundary(s, p) ==
    LET before == p - 1 >= 1 /\ p - 1 <= Len(s) /\ IsWord(s[p - 1])
        after  == p >= 1 /\ p <= Len(s) /\ IsWord(s[p])
    IN  before # after

(***************************************************************************)
(* Null cells and str().                                                    *)
(***************************************************************************)
None == <<"<None>">>
NaN  == <<"<NaN>">>

Str(v) ==
    IF v = None THEN <<"N","o","n","e">>
    ELSE IF v = NaN THEN <<"n","a","n">>
    ELSE v

(***************************************************************************)
(* HONORIFICS = ^(dr\.?|mr\.?|mrs\.?|ms\.?|prof\.?|shri\.?|smt\.?)\s+        *)
(***************************************************************************)
HonorificWords ==
    << <<"d","r">>, <<"m","r">>, <<"m","r","s">>, <<"m","s">>,
       <<"p","r","o","f">>, <<"s","h","r","i">>, <<"s","m","t">> >>

\* With alternative n tried at the start of s: the index after the match, or 0.
\* \.? is greedy and gives the dot back when no whitespace follows it.
HonorificAlt(s, n) ==
    LET w == HonorificWords[n]
        e == Len(w) + 1
    IN  IF ~MatchAt(s, 1, w) THEN 0
        ELSE IF e <= Len(s) /\ s[e] = "." /\ e + 1 <= Len(s) /\ IsSpace(s[e + 1])
             THEN SkipSpace(s, e + 1)
        ELSE IF e <= Len(s) /\ IsSpace(s[e])
             THEN SkipSpace(s, e)
        ELSE 0

\* the alternatives in the order of the pattern, first success wins
RECURSIVE HonorificEnd(_, _)
HonorificEnd(s, n) ==
    IF n > Len(HonorificWords) THEN 0
    ELSE IF HonorificAlt(s, n) > 0 THEN HonorificAlt(s, n)
    ELSE HonorificEnd(s, n + 1)

\* a pattern that matches no honorific: the text is left as it is
HONORIFICS_sub_none(s) == s

\* HONORIFICS.sub("", s): ^ anchors the only possible match at the start
HONORIFICS_sub(s) ==
    LET e == HonorificEnd(s, 1)
    IN  IF e = 0 THEN s ELSE SubSeq(s, e, Len(s))

(***************************************************************************)
(* CO_SUFFIXES = \s+(india|pvt\.?|ltd\.?|limited|private|inc\.?|llc|group|  *)
(*                   technologies|tech|solutions)\b                         *)
(***************************************************************************)
SuffixWords ==
    << [w |-> <<"i","n","d","i","a">>, dot |-> FALSE],
       [w |-> <<"p","v","t">>, dot |-> TRUE],
       [w |-> <<"l","t","d">>, dot |-> TRUE],
       [w |-> <<"l","i","m","i","t","e","d">>, dot |-> FALSE],
       [w |-> <<"p","r","i","v","a","t","e">>, dot |-> FALSE],
       [w |-> <<"i","n","c">>, dot |-> TRUE],
       [w |-> <<"l","l","c">>, dot |-> FALSE],
       [w |-> <<"g","r","o","u","p">>, dot |-> FALSE],
       [w |-> <<"t","e","c","h","n","o","l","o","g","i","e","s">>, dot |-> FALSE],
       [w |-> <<"t","e","c","h">>, dot |-> FALSE],
       [w |-> <<"s","o","l","u","t","i","o","n","s">>, dot |-> FALSE] >>

\* With alternative n tried at index q of s: the index after the match, or 0.
\* \.? takes the dot when \b holds after it, and gives it back otherwise.
SuffixAlt(s, q, n) ==
    LET alt == SuffixWords[n]
        e   == q + Len(alt.w)
    IN  IF ~MatchAt(s, q, alt.w) THEN 0
        ELSE IF alt.dot /\ e <= Len(s) /\ s[e] = "." /\ Boundary(s, e + 1)
             THEN e + 1
        ELSE IF Boundary(s, e) THEN e
        ELSE 0

RECURSIVE SuffixAltEnd(_, _, _)
SuffixAltEnd(s, q, n) ==
    IF n > Len(SuffixWords) THEN 0
    ELSE IF SuffixAlt(s, q, n) > 0 THEN SuffixAlt(s, q, n)
    ELSE SuffixAltEnd(s, q, n + 1)

\* A match of CO_SUFFIXES that starts at index p: the index after it, or 0.
\* \s+ takes the whole run of whitespace; a shorter run leaves whitespace
\* where the pattern needs a letter.
SuffixEnd(s, p) ==
    IF p > Len(s) \/ ~IsSpace(s[p]) THEN 0
    ELSE SuffixAltEnd(s, SkipSpace(s, p), 1)

\* CO_SUFFIXES.sub("", s) from index p on: every non-overlapping match, left to right
RECURSIVE CO_SUFFIXES_from(_, _)
CO_SUFFIXES_from(s, p) ==
    IF p > Len(s) THEN <<>>
    ELSE IF SuffixEnd(s, p) > 0 THEN CO_SUFFIXES_from(s, SuffixEnd(s, p))
    ELSE <<s[p]>> \o CO_SUFFIXES_from(s, p + 1)

CO_SUFFIXES_sub(s) == CO_SUFFIXES_from(s, 1)

(***************************************************************************)
(* normalize_name, normalize_company, dedup_key                             *)
(***************************************************************************)
NotPunct(c) == IsWord(c) \/ IsSpace(c)

\* re.sub(r"[^\w\s]", "", s)
StripPunct(s) == SelectSeq(s, NotPunct)

\* s.split()[0] of a text that is not all whitespace
FirstWord(s) ==
    LET t == Strip(s)
        stop == CHOOSE k \in 1..(Len(t) + 1) :
                    /\ k = Len(t) + 1 \/ IsSpace(t[k])
                    /\ \A m \in 1..(k - 1) : ~IsSpace(t[m])
    IN  SubSeq(t, 1, stop - 1)

normalize_name(name) ==
    Strip(Lower(StripPunct(HONORIFICS_sub(Strip(Str(name))))))

normalize_company(company) ==
    LET c == StripPunct(CO_SUFFIXES_sub(Strip(Str(company))))
    IN  IF Strip(c) # <<>> THEN FirstWord(Lower(c)) ELSE <<>>

dedup_key(row) ==
    normalize_name(row.name) \o <<"|">> \o normalize_company(row.company)

(***************************************************************************)
(* similarity: difflib.SequenceMatcher(None, a, b).ratio() * 100            *)
(*                                                                          *)
(* The ratio is 2 * M / T, M the characters in the matching blocks and T    *)
(* the two lengths together.  It is kept as the exact fraction num / den;   *)
(* the float the source computes compares with the threshold and formats    *)
(* with .0f like the fraction for T < 80.  No character is junk (isjunk is  *)
(* None, and autojunk needs a text of 200 characters).                      *)
(***************************************************************************)
Min(S) == CHOOSE x \in S : \A y \in S : x <= y

Max(S) == CHOOSE x \in S : \A y \in S : x >= y

\* length of the common run of a from p and b from q, within a[..ahi] and b[..bhi]
RECURSIVE RunLen(_, _, _, _, _, _)
RunLen(a, b, p, q, ahi, bhi) ==
    IF p > ahi \/ q > bhi \/ a[p] # b[q] THEN 0
    ELSE 1 + RunLen(a, b, p + 1, q + 1, ahi, bhi)

\* SequenceMatcher.find_longest_match on a[alo..ahi], b[blo..bhi]: the longest
\* matching block, the one starting earliest in a and then earliest in b
find_longest_match(a, b, alo, ahi, blo, bhi) ==
    LET len  == [pr \in (alo..ahi) \X (blo..bhi) |->
                    RunLen(a, b, pr[1], pr[2], ahi, bhi)]
        size == IF DOMAIN len = {} THEN 0 ELSE Max({len[pr] : pr \in DOMAIN len})
        besti == Min({pr[1] : pr \in {x \in DOMAIN len : len[x] = size}})
        bestj == Min({pr[2] : pr \in {x \in DOMAIN len : len[x] = size /\ x[1] = besti}})
    IN  IF size = 0 THEN [i |-> alo, j |-> blo, size |-> 0]
        ELSE [i |-> besti, j |-> bestj, size |-> size]

\* SequenceMatcher.get_matching_blocks: the block, then the pieces left and
\* right of it; the sum of the block sizes
RECURSIVE matching_size(_, _, _, _, _, _)
matching_size(a, b, alo, ahi, blo, bhi) ==
    IF alo > ahi \/ blo > bhi THEN 0
    ELSE LET m == find_longest_match(a, b, alo, ahi, blo, bhi)
         IN  IF m.size = 0 THEN 0
             ELSE m.size
                  + matching_size(a, b, alo, m.i - 1, blo, m.j - 1)
                  + matching_size(a, b, m.i + m.size, ahi, m.j + m.size, bhi)

similarity(a, b) ==
    IF Len(a) + Len(b) = 0 THEN [num |-> 100, den |-> 1]
    ELSE [num |-> 200 * matching_size(a, b, 1, Len(a), 1, Len(b)),
          den |-> Len(a) + Len(b)]

\* name_sim >= threshold
AtLeast(sim, threshold) == sim.num >= threshold * sim.den

\* f"{name_sim:.0f}": the nearest integer, a tie going to the even one
Format0f(sim) ==
    LET fl  == sim.num \div sim.den
        rem == sim.num - fl * sim.den
    IN  IF 2 * rem > sim.den \/ (2 * rem = sim.den /\ fl % 2 = 1)
        THEN ToString(fl + 1)
        ELSE ToString(fl)

(***************************************************************************)
(* find_duplicates: the input batches                                       *)
(***************************************************************************)
fuzzy_threshold == 85

Strategies == {"keep_first", "keep_highest_icp"}

DrRohiniSrivathsa ==
    <<"D","r","."," ","R","o","h","i","n","i"," ","S","r","i","v","a","t","h","s","a">>

RohiniSrivathsa ==
    <<"R","o","h","i","n","i"," ","S","r","i","v","a","t","h","s","a">>

RohiniSrivatsa ==
    <<"R","o","h","i","n","i"," ","S","r","i","v","a","t","s","a">>

DrMrX == <<"D","r","."," ","M","r","."," ","X">>

AnitaRana == <<"A","n","i","t","a"," ","R","a","n","a">>

AnitaNanda == <<"A","n","i","t","a"," ","N","a","n","d","a">>

MicrosoftIndia ==
    <<"M","i","c","r","o","s","o","f","t"," ","I","n","d","i","a">>

Microsoft == <<"M","i","c","r","o","s","o","f","t">>

RazorpayIndiaPvtLtd ==
    <<"R","a","z","o","r","p","a","y"," ","I","n","d","i","a"," ","P","v","t"," ","L","t","d">>

Razorpay == <<"R","a","z","o","r","p","a","y">>

\* the (name, company) cells a row of a batch is drawn from
Contacts ==
    { <<DrRohiniSrivathsa, MicrosoftIndia>>,
      <<RohiniSrivathsa, Microsoft>>,
      <<RohiniSrivatsa, Microsoft>>,
      <<RohiniSrivathsa, RazorpayIndiaPvtLtd>>,
      <<RohiniSrivathsa, Razorpay>>,
      <<AnitaRana, Razorpay>>,
      <<AnitaNanda, Razorpay>>,
      <<RohiniSrivatsa, <<>> >>,
      <<RohiniSrivathsa, NaN>> }

\* Row k of the frame (pandas index k - 1).  Ids are unique and differ from
\* the index.  _key is the column line 97 adds.
MakeRow(k, contact, icp) ==
    LET cells == [id |-> 100 * k, name |-> contact[1], company |-> contact[2],
                  icp_score |-> icp]
    IN  [id |-> cells.id, name |-> cells.name, company |-> cells.company,
         icp_score |-> cells.icp_score, _key |-> dedup_key(cells)]

(***************************************************************************)
(* find_duplicates: dict and list helpers                                   *)
(***************************************************************************)
\* key in processed_keys
KeyIn(keys, key) == \E n \in 1..Len(keys) : keys[n].key = key

\* processed_keys[key]
KeyGet(keys, key) == keys[CHOOSE n \in 1..Len(keys) : keys[n].key = key].idx

\* processed_keys[key] = idx: a new key goes last, an old one keeps its place
KeySet(keys, key, idx) ==
    IF KeyIn(keys, key)
    THEN [n \in 1..Len(keys) |->
            IF keys[n].key = key THEN [key |-> key, idx |-> idx] ELSE keys[n]]
    ELSE Append(keys, [key |-> key, idx |-> idx])

\* list.remove(x): the first occurrence goes
ListRemove(list, x) ==
    LET at == CHOOSE n \in 1..Len(list) :
                  list[n] = x /\ \A m \in 1..(n - 1) : list[m] # x
    IN  SubSeq(list, 1, at - 1) \o SubSeq(list, at + 1, Len(list))

\* existing_key.split("|", 1)
SplitKey(key) ==
    LET bar == CHOOSE n \in 1..Len(key) :
                   key[n] = "|" /\ \A m \in 1..(n - 1) : key[m] # "|"
    IN  [ex_name |-> SubSeq(key, 1, bar - 1), ex_co |-> SubSeq(key, bar + 1, Len(key))]

\* the index of the kept row where its id is meant
IdAt_index(frame, idx) == idx

\* df.loc[idx, "id"]
IdAt(frame, idx) == frame[idx].id

\* {**row.to_dict(), "dup_reason": reason, "kept_id": kept_id}
Flagged(row, reason, kept_id) ==
    [id |-> row.id, name |-> row.name, company |-> row.company,
     icp_score |-> row.icp_score, _key |-> row._key,
     dup_reason |-> reason, kept_id |-> kept_id]

\* .drop(columns=["_key"])
DropKey(row) == [f \in (DOMAIN row) \ {"_key"} |-> row[f]]

(***************************************************************************)
(* find_duplicates: the three blocks of the loop body.  st holds the        *)
(* function's locals: kept_indices, dup_records, processed_keys, matched.   *)
(***************************************************************************)
\* block 1 left out: a repeated key goes on to the fuzzy block
ExactBlock_skipped(st, row, frame) == st

\* block 1 without line 117: the row is flagged and matched stays False
ExactBlock_unmatched(st, row, frame) ==
    IF KeyIn(st.processed_keys, row._key)
    THEN [st EXCEPT
            !.dup_records = Append(@, Flagged(row, "exact_match",
                                frame[KeyGet(st.processed_keys, row._key)].id))]
    ELSE st

\* 1. exact key match
ExactBlock(st, row, frame) ==
    IF KeyIn(st.processed_keys, row._key)
    THEN [st EXCEPT
            !.dup_records = Append(@, Flagged(row, "exact_match",
                                IdAt(frame, KeyGet(st.processed_keys, row._key)))),
            !.matched = TRUE]
    ELSE st

\* the loop without the company test of lines 128-129
RECURSIVE FuzzyHit_any_company(_, _, _, _)
FuzzyHit_any_company(keys, n, norm_name, norm_company) ==
    IF n > Len(keys) THEN 0
    ELSE IF AtLeast(similarity(norm_name, SplitKey(keys[n].key).ex_name),
                    fuzzy_threshold)
         THEN n
    ELSE FuzzyHit_any_company(keys, n + 1, norm_name, norm_company)

\* the loop over processed_keys.items() from entry n on: the first entry with
\* the same company root and a similar enough name, or 0
RECURSIVE FuzzyHit(_, _, _, _)
FuzzyHit(keys, n, norm_name, norm_company) ==
    IF n > Len(keys) THEN 0
    ELSE IF SplitKey(keys[n].key).ex_co # norm_company
         THEN FuzzyHit(keys, n + 1, norm_name, norm_company)
    ELSE IF AtLeast(similarity(norm_name, SplitKey(keys[n].key).ex_name),
                    fuzzy_threshold)
         THEN n
    ELSE FuzzyHit(keys, n + 1, norm_name, norm_company)

\* 2. fuzzy name match (same company first word)
FuzzyBlock(st, row, frame) ==
    IF st.matched THEN st
    ELSE LET norm_name    == normalize_name(row.name)
             norm_company == normalize_company(row.company)
             hit          == FuzzyHit(st.processed_keys, 1, norm_name, norm_company)
             name_sim     == similarity(norm_name,
                                 SplitKey(st.processed_keys[hit].key).ex_name)
         IN  IF hit = 0 THEN st
             ELSE [st EXCEPT
                     !.dup_records = Append(@, Flagged(row,
                                         "fuzzy_match_" \o Format0f(name_sim) \o "pct",
                                         IdAt(frame, st.processed_keys[hit].idx))),
                     !.matched = TRUE]

\* kept_indices.insert(0, idx)
KeepIndex_front(kept, idx) == <<idx>> \o kept

\* kept_indices.append(idx)
KeepIndex(kept, idx) == Append(kept, idx)

\* 3. keep this record
KeepBlock(st, row, idx, frame, strat) ==
    IF st.matched THEN st
    ELSE IF strat = "keep_highest_icp" /\ KeyIn(st.processed_keys, row._key)
         THEN LET existing_idx == KeyGet(st.processed_keys, row._key)
              IN  IF row.icp_score > frame[existing_idx].icp_score
                  THEN [st EXCEPT
                          !.dup_records = Append(@, Flagged(frame[existing_idx],
                                              "replaced_by_higher_icp", row.id)),
                          !.kept_indices =
                              KeepIndex(ListRemove(@, existing_idx), idx),
                          !.processed_keys = KeySet(@, row._key, idx)]
                  ELSE st
    ELSE [st EXCEPT
            !.kept_indices = KeepIndex(@, idx),
            !.processed_keys = KeySet(@, row._key, idx)]

\* one iteration of the loop at line 103
LoopBody(st, row, idx, frame, strat) ==
    KeepBlock(FuzzyBlock(ExactBlock([st EXCEPT !.matched = FALSE], row, frame),
                         row, frame),
              row, idx, frame, strat)

(***************************************************************************)
(* routing/lead_router.py.  Owner, role and sender names are strings; the   *)
(* id and company cells of a contact are what the router applies str() to.  *)
(***************************************************************************)
MaxCapacity == 2     \* a member's capacity ranges over 1..MaxCapacity
MaxCalls == 3        \* route() calls made on one router
MaxIds == 3          \* contact ids range over 1..MaxIds
MaxRows == 2         \* rows of a file given to route_all
MaxTierRows == 5     \* rows of a single-tier file given to route_all

\* score 4 counts as high
ICP_THRESHOLDS_high4 == [high |-> 4, medium |-> 4, low |-> 3, skip |-> 2]

ICP_THRESHOLDS == [high |-> 5, medium |-> 4, low |-> 3, skip |-> 2]

\* every tier is owned and written to by the SDRs
ROUTING_RULES_all_sdr ==
    [t \in {"C-Suite", "VP/Director", "Manager/IC"} |->
        [owner_role |-> "SDR", sender_level |-> "SDR"]]

ROUTING_RULES ==
    [t \in {"C-Suite", "VP/Director", "Manager/IC"} |->
        CASE t = "C-Suite"     -> [owner_role |-> "Senior AE", sender_level |-> "Leadership"]
          [] t = "VP/Director" -> [owner_role |-> "AE", sender_level |-> "AE"]
          [] t = "Manager/IC"  -> [owner_role |-> "SDR", sender_level |-> "SDR"]]

\* lines 43-59
TEAM ==
    [r \in {"Senior AE", "AE", "SDR"} |->
        CASE r = "Senior AE" ->
               << [name |-> "Priya Nair", email |-> "priya@company.co", capacity |-> 30],
                  [name |-> "Vikram Sethi", email |-> "vikram@company.co", capacity |-> 30] >>
          [] r = "AE" ->
               << [name |-> "Sneha Kapoor", email |-> "sneha@company.co", capacity |-> 50],
                  [name |-> "Rahul Desai", email |-> "rahul@company.co", capacity |-> 50],
                  [name |-> "Meera Iyer", email |-> "meera@company.co", capacity |-> 50] >>
          [] r = "SDR" ->
               << [name |-> "Arjun Sharma", email |-> "arjun@company.co", capacity |-> 60],
                  [name |-> "Divya Menon", email |-> "divya@company.co", capacity |-> 60],
                  [name |-> "Karan Bose", email |-> "karan@company.co", capacity |-> 60] >>]

\* a roster given to LeadRouter(team): the members of TEAM, the k-th member
\* of every pool with capacity cap[k]
TeamWith(cap) ==
    [r \in DOMAIN TEAM |->
        [k \in 1..Len(TEAM[r]) |-> [TEAM[r][k] EXCEPT !.capacity = cap[k]]]]

SENDER_PERSONA ==
    [l \in {"Leadership", "AE", "SDR"} |->
        CASE l = "Leadership" ->
               [name |-> "Rohan Mehta", title |-> "VP of Partnerships", email |-> "rohan@company.co"]
          [] l = "AE" ->
               [name |-> "Sneha Kapoor", title |-> "Account Executive", email |-> "sneha@company.co"]
          [] l = "SDR" ->
               [name |-> "Arjun Sharma", title |-> "Sales Development Rep", email |-> "arjun@company.co"]]

\* dict.get(key, default)
Get(d, key, default) == IF key \in DOMAIN d THEN d[key] ELSE default

\* str() of a non-negative integer
DigitChars == <<"0","1","2","3","4","5","6","7","8","9">>

RECURSIVE StrInt(_)
StrInt(n) ==
    IF n < 10 THEN <<DigitChars[n + 1]>>
    ELSE StrInt(n \div 10) \o <<DigitChars[(n % 10) + 1]>>

\* the router's state as one record
Router(t, ac, co, ids) ==
    [team |-> t, assignment_count |-> ac, company_owner |-> co, sequence_ids |-> ids]

\* LeadRouter.__init__
NewRouter(t) == Router(t, <<>>, <<>>, {})

\* reading assignment_count[name]: a defaultdict(int) gives 0 for a new key ...
Count(ac, name) == IF name \in DOMAIN ac THEN ac[name] ELSE 0

\* ... and stores it: the dict after every member of a pool has been read
Touched(ac, members) ==
    [n \in (DOMAIN ac) \cup {members[k].name : k \in 1..Len(members)} |-> Count(ac, n)]

\* no sort: the pool in roster order
sorted_in_roster_order(members, ac) == members

\* sorted(members, key=lambda m: self.assignment_count[m["name"]]): stable
sorted(members, ac) ==
    LET n == Len(members)
        key(k) == Count(ac, members[k].name)
        before(j, k) == key(j) < key(k) \/ (key(j) = key(k) /\ j < k)
        rank(k) == Cardinality({j \in 1..n : before(j, k)}) + 1
    IN  [r \in 1..n |-> members[CHOOSE k \in 1..n : rank(k) = r]]

\* the member taken when the whole pool is at capacity: the last one
fallback_last(members) == members[Len(members)]

\* lines 93-95: members[0]
fallback(members) == members[1]

\* the overflow is not reported
overflow_fields_none(role) == [owner_role |-> role]

\* line 96: the fields an overflow assignment adds to the three owner fields
overflow_fields(role) == [owner_role |-> role, capacity_overflow |-> TRUE]

\* dict.update, and {**a, **b}
Update(a, b) ==
    [f \in (DOMAIN a) \cup (DOMAIN b) |-> IF f \in DOMAIN b THEN b[f] ELSE a[f]]

\* lines 78-96; gives the router afterwards and the dict returned
assign_owner(self, seniority) ==
    LET role == Get(Get(ROUTING_RULES, seniority, <<>>), "owner_role", "SDR")
        members == Get(self.team, role, self.team["SDR"])
        ac == Touched(self.assignment_count, members)
        order == sorted(members, ac)
        free == {r \in 1..Len(order) : ac[order[r].name] < order[r].capacity}
        member == IF free # {} THEN order[Min(free)] ELSE fallback(members)
        owner == [owner_name |-> member.name, owner_email |-> member.email]
    IN  [self |-> [self EXCEPT !.assignment_count =
                                    [ac EXCEPT ![member.name] = @ + 1]],
         assignment |-> IF free # {} THEN Update(owner, [owner_role |-> role])
                        ELSE Update(owner, overflow_fields(role))]

\* lines 98-101
get_sender(seniority) ==
    LET sender_level == Get(Get(ROUTING_RULES, seniority, <<>>), "sender_level", "SDR")
    IN  Get(SENDER_PERSONA, sender_level, SENDER_PERSONA["SDR"])

\* no contact is sent to leadership review
needs_leadership_review_never(c) == FALSE

\* lines 103-111
needs_leadership_review(c) ==
    /\ Get(c, "icp_score", 0) >= ICP_THRESHOLDS.high
    /\ Get(c, "seniority_tier", "") = "C-Suite"

\* what [0] of an empty list raises
IndexError == <<"<IndexError>">>

\* the whole lowercased company, not its first word
company_root_unsplit(c) ==
    LET text == Lower(Str(Get(c, "company", <<>>)))
    IN  IF Strip(text) = <<>> THEN IndexError ELSE Strip(text)

\* lines 118 and 181: str(contact.get("company","")).lower().split()[0]
company_root(c) ==
    LET text == Lower(Str(Get(c, "company", <<>>)))
    IN  IF Strip(text) = <<>> THEN IndexError ELSE FirstWord(text)

\* a conflict only when the owner assign_owner would pick is another one
check_company_conflict_different_owner(self, c) ==
    LET pick == assign_owner(self, Get(c, "seniority_tier", "Manager/IC"))
    IN  IF /\ company_root(c) \in DOMAIN self.company_owner
           /\ self.company_owner[company_root(c)] # pick.assignment.owner_name
        THEN [conflict |-> TRUE, existing |-> self.company_owner[company_root(c)]]
        ELSE [conflict |-> FALSE, existing |-> ""]

\* no company is ever found to have an owner
check_company_conflict_never(self, c) == [conflict |-> FALSE, existing |-> ""]

\* lines 113-122, when line 118 does not raise
check_company_conflict(self, c) ==
    IF company_root(c) \in DOMAIN self.company_owner
    THEN [conflict |-> TRUE, existing |-> self.company_owner[company_root(c)]]
    ELSE [conflict |-> FALSE, existing |-> ""]

\* no contact is ever found in a sequence
check_duplicate_sequence_never(self, c) == FALSE

\* str(contact.get("id", "")) of lines 126 and 133: the id as text, "" for
\* a contact without one
contact_id(c) == IF "id" \in DOMAIN c THEN StrInt(c.id) ELSE <<>>

\* lines 124-126
check_duplicate_sequence(self, c) == contact_id(c) \in self.sequence_ids

\* lines 135-146
NewResult ==
    [owner_name |-> "", owner_email |-> "", owner_role |-> "",
     sender_name |-> "", sender_title |-> "", sender_email |-> "",
     routing_status |-> "assigned", leadership_review |-> "NO",
     routing_notes |-> "", capacity_overflow |-> FALSE]

\* the assignment is lost
DictSet_noop(d, key, value) == d

\* dict[key] = value on a dict held as a function
DictSet(d, key, value) ==
    [k \in (DOMAIN d) \cup {key} |-> IF k = key THEN value ELSE d[k]]

\* lines 164-189: the contact passed both gates
Assigned(self, c) ==
    LET seniority == Get(c, "seniority_tier", "Manager/IC")
        a == assign_owner(self, seniority)
        sender == get_sender(seniority)
        r1 == Update(NewResult, a.assignment)
        r2 == [r1 EXCEPT !.sender_name = sender.name,
                         !.sender_title = sender.title,
                         !.sender_email = sender.email]
        \* the note's dash is written in ASCII here
        r3 == IF needs_leadership_review(c)
              THEN [r2 EXCEPT !.leadership_review = "YES",
                              !.routing_notes =
                                  "ICP 5 + C-Suite - leadership must approve before send"]
              ELSE r2
    IN  [self |-> [a.self EXCEPT
                      !.company_owner = DictSet(@, company_root(c), r3.owner_name),
                      !.sequence_ids = @ \cup {contact_id(c)}],
         result |-> r3,
         raised |-> ""]

\* lines 128-189; raised is "" when route returns, and names the exception
\* when it does not
route(self, c) ==
    IF check_duplicate_sequence(self, c)
    THEN [self |-> self,
          result |-> [NewResult EXCEPT
                         !.routing_status = "skip_in_sequence",
                         !.routing_notes = "Contact already in an active sequence"],
          raised |-> ""]
    ELSE IF company_root(c) = IndexError
    THEN [self |-> self, result |-> <<>>, raised |-> "IndexError"]
    ELSE IF check_company_conflict(self, c).conflict
    THEN LET existing_owner == check_company_conflict(self, c).existing
         IN  [self |-> self,
              result |-> [NewResult EXCEPT
                             !.routing_status = "skip_company_conflict",
                             !.routing_notes =
                                 "Company already owned by " \o existing_owner,
                             !.owner_name = existing_owner],
              raised |-> ""]
    ELSE Assigned(self, c)

\* no router exists
RouterIdle ==
    /\ team = <<>>
    /\ assignment_count = <<>>
    /\ company_owner = <<>>
    /\ sequence_ids = {}
    /\ routed = <<>>
    /\ result = <<>>
    /\ raised = ""
    /\ flagged = {}
    /\ calls = 0
    /\ rows = <<>>
    /\ results = <<>>
    /\ rpc = "idle"

(***************************************************************************)
(* find_duplicates as a state machine                                       *)
(***************************************************************************)
\* no normaliser call is under way
NormIdle == raw = <<>> /\ once = <<>> /\ twice = <<>> /\ npc = "idle"

\* the locals at line 101, for a batch of 1..MaxBatch rows
Init ==
    /\ strategy \in Strategies
    /\ \E n \in 1..MaxBatch :
         \E pick \in [1..n -> Contacts \X (1..MaxIcp)] :
            df = [k \in 1..n |-> MakeRow(k, pick[k][1], pick[k][2])]
    /\ i = 1
    /\ kept_indices = <<>>
    /\ dup_records = <<>>
    /\ processed_keys = <<>>
    /\ clean_df = <<>>
    /\ dups_df = <<>>
    /\ pc = "loop"
    /\ NormIdle
    /\ RouterIdle
    /\ MergeIdle
    /\ ApolloIdle
    /\ OutreachIdle

\* lines 103-160: the body of the loop for row i
ProcessRow ==
    /\ pc = "loop"
    /\ i <= Len(df)
    /\ LET st == LoopBody([kept_indices |-> kept_indices,
                           dup_records |-> dup_records,
                           processed_keys |-> processed_keys,
                           matched |-> FALSE],
                          df[i], i, df, strategy)
       IN  /\ kept_indices' = st.kept_indices
           /\ dup_records' = st.dup_records
           /\ processed_keys' = st.processed_keys
    /\ i' = i + 1
    /\ UNCHANGED <<strategy, df, clean_df, dups_df, pc, norm_vars, router_vars, merge_vars, apollo_vars,
                   outreach_vars>>

\* lines 162-165: the two frames returned
Return ==
    /\ pc = "loop"
    /\ i > Len(df)
    /\ clean_df' = [k \in 1..Len(kept_indices) |-> DropKey(df[kept_indices[k]])]
    /\ dups_df' = [k \in 1..Len(dup_records) |-> DropKey(dup_records[k])]
    /\ pc' = "done"
    /\ UNCHANGED <<strategy, df, i, kept_indices, dup_records, processed_keys,
                   norm_vars, router_vars, merge_vars, apollo_vars,
                   outreach_vars>>

Next == ProcessRow \/ Return

Spec == Init /\ [][Next]_vars

(***************************************************************************)
(* normalize_name and normalize_company on their own: a cell is normalised, *)
(* and the result is normalised again.                                      *)
(***************************************************************************)
CellAlphabet == {"D", "r", ".", " ", "\r", "x"}

Texts == UNION {[1..n -> CellAlphabet] : n \in 0..MaxStrLen}

Cells ==
    Texts \cup {None, NaN}
          \cup {c[1] : c \in Contacts} \cup {c[2] : c \in Contacts}
          \cup {DrMrX}

DedupIdle ==
    /\ strategy = "keep_first"
    /\ df = <<>>
    /\ i = 1
    /\ kept_indices = <<>>
    /\ dup_records = <<>>
    /\ processed_keys = <<>>
    /\ clean_df = <<>>
    /\ dups_df = <<>>
    /\ pc = "idle"

InitNorm ==
    /\ raw \in Cells
    /\ once = <<>>
    /\ twice = <<>>
    /\ npc = "idle"
    /\ DedupIdle
    /\ RouterIdle
    /\ MergeIdle
    /\ ApolloIdle
    /\ OutreachIdle

NormalizeName ==
    /\ npc = "idle"
    /\ once' = normalize_name(raw)
    /\ npc' = "name"
    /\ UNCHANGED <<raw, twice, dedup_vars, router_vars, merge_vars, apollo_vars,
                   outreach_vars>>

NormalizeNameAgain ==
    /\ npc = "name"
    /\ twice' = normalize_name(once)
    /\ npc' = "name_again"
    /\ UNCHANGED <<raw, once, dedup_vars, router_vars, merge_vars, apollo_vars,
                   outreach_vars>>

NormalizeCompany ==
    /\ npc = "idle"
    /\ once' = normalize_company(raw)
    /\ npc' = "company"
    /\ UNCHANGED <<raw, twice, dedup_vars, router_vars, merge_vars, apollo_vars,
                   outreach_vars>>

NormalizeCompanyAgain ==
    /\ npc = "company"
    /\ twice' = normalize_company(once)
    /\ npc' = "company_again"
    /\ UNCHANGED <<raw, once, dedup_vars, router_vars, merge_vars, apollo_vars,
                   outreach_vars>>

NextNorm ==
    \/ NormalizeName
    \/ NormalizeNameAgain
    \/ NormalizeCompany
    \/ NormalizeCompanyAgain

SpecNorm == InitNorm /\ [][NextNorm]_vars

(***************************************************************************)
(* LeadRouter as a state machine: route() called on one router with any     *)
(* contacts, in any order.                                                  *)
(***************************************************************************)
RazorpaySoftwarePvtLtd ==
    <<"R","a","z","o","r","p","a","y"," ","S","o","f","t","w","a","r","e",
      " ","P","v","t"," ","L","t","d">>

RazorpayInc == <<"R","a","z","o","r","p","a","y",","," ","I","n","c",".">>

Blank == <<" ", " ">>

Tiers == DOMAIN ROUTING_RULES

\* a seniority_tier that ROUTING_RULES has no entry for
OtherTier == "Advisor"

\* the seniority_tier cells of a file
FileTiers == Tiers \cup {OtherTier}

IcpScores == {ICP_THRESHOLDS.medium, ICP_THRESHOLDS.high}

RouterCompanies == {Razorpay, RazorpaySoftwarePvtLtd, RazorpayInc, Blank, NaN}

\* the contacts given to route(); the score varies in the files of route_all
RouterContacts ==
    [id : 1..MaxIds, company : RouterCompanies, seniority_tier : Tiers,
     icp_score : {ICP_THRESHOLDS.high}]
    \cup
    \* contacts without an id
    [company : {Razorpay, Microsoft}, seniority_tier : {"C-Suite"},
     icp_score : {ICP_THRESHOLDS.high}]

\* rosters: the members of TEAM with capacities of 1..MaxCapacity
Teams == {TeamWith(cap) : cap \in [1..3 -> 1..MaxCapacity]}

InitRouter ==
    /\ team \in Teams
    /\ assignment_count = NewRouter(team).assignment_count
    /\ company_owner = NewRouter(team).company_owner
    /\ sequence_ids = NewRouter(team).sequence_ids
    /\ routed = <<>>
    /\ result = <<>>
    /\ raised = ""
    /\ flagged = {}
    /\ calls = 0
    /\ rows = <<>>
    /\ results = <<>>
    /\ rpc = "calls"
    /\ DedupIdle
    /\ NormIdle
    /\ MergeIdle
    /\ ApolloIdle
    /\ OutreachIdle

\* the router moves to what a route() call leaves, and the call's outcome
\* is recorded
Routed(c, out) ==
    /\ assignment_count' = out.self.assignment_count
    /\ company_owner' = out.self.company_owner
    /\ sequence_ids' = out.self.sequence_ids
    /\ routed' = c
    /\ result' = out.result
    /\ raised' = out.raised
    /\ flagged' = IF out.raised = "" /\ out.result.capacity_overflow
                  THEN flagged \cup {out.result.owner_name}
                  ELSE flagged
    /\ calls' = calls + 1

\* one call of route()
Route ==
    /\ rpc = "calls"
    /\ calls < MaxCalls
    /\ \E c \in RouterContacts :
          Routed(c, route(Router(team, assignment_count, company_owner,
                                 sequence_ids), c))
    /\ UNCHANGED <<team, rows, results, rpc, dedup_vars, norm_vars, merge_vars, apollo_vars,
                   outreach_vars>>

NextRouter == Route

SpecRouter == InitRouter /\ [][NextRouter]_vars

(***************************************************************************)
(* route_all: the file is sorted, then every row is routed by a new router. *)
(***************************************************************************)
\* the characters of a str in code-point order, for the comparison of strs
CodePoints ==
    <<" ", "-", ".", "/">> \o DigitChars \o Uppercase \o <<"_">> \o Lowercase

Ord(ch) == CHOOSE k \in 1..Len(CodePoints) : CodePoints[k] = ch

\* a < b on strs
RECURSIVE StrLess(_, _)
StrLess(a, b) ==
    IF b = <<>> THEN FALSE
    ELSE IF a = <<>> THEN TRUE
    ELSE IF a[1] # b[1] THEN Ord(a[1]) < Ord(b[1])
    ELSE StrLess(Tail(a), Tail(b))

\* the seniority_tier cells as text
TierText ==
    [t \in FileTiers |->
        CASE t = OtherTier     -> <<"A","d","v","i","s","o","r">>
          [] t = "C-Suite"     -> <<"C","-","S","u","i","t","e">>
          [] t = "VP/Director" -> <<"V","P","/","D","i","r","e","c","t","o","r">>
          [] t = "Manager/IC"  -> <<"M","a","n","a","g","e","r","/","I","C">>]

\* line 205: icp_score descending, then seniority_tier ascending
SortsBefore(a, b) ==
    \/ a.icp_score > b.icp_score
    \/ /\ a.icp_score = b.icp_score
       /\ StrLess(TierText[a.seniority_tier], TierText[b.seniority_tier])

\* df.sort_values([...]).reset_index(drop=True); rows with equal keys keep
\* their order in the file
sort_values(frame) ==
    LET n == Len(frame)
        before(j, k) == SortsBefore(frame[j], frame[k])
                        \/ (~SortsBefore(frame[k], frame[j]) /\ j < k)
        rank(k) == Cardinality({j \in 1..n : before(j, k)}) + 1
    IN  [r \in 1..n |-> frame[CHOOSE k \in 1..n : rank(k) = r]]

FileCompanies == {Razorpay, RazorpaySoftwarePvtLtd, Blank}

\* the k-th of a list of companies with pairwise distinct first words
CompanyNo(k) == <<"C","o","m","p","a","n","y">> \o StrInt(k) \o <<" ","L","t","d">>

\* a file row: the id is the row's position in the file
FileRow(k, company, tier, icp) ==
    [id |-> k, name |-> AnitaRana, company |-> company, seniority_tier |-> tier,
     icp_score |-> icp]

\* any file of up to MaxRows rows
Files ==
    UNION {{[k \in 1..n |-> FileRow(k, pick[k][1], pick[k][2], pick[k][3])] :
               pick \in [1..n -> FileCompanies \X Tiers \X IcpScores]} :
           n \in 1..MaxRows}

\* files of up to MaxTierRows rows of one tier and one score, every row with
\* a company of its own
TierFiles ==
    {[k \in 1..n |-> FileRow(k, CompanyNo(k), t, s)] :
        n \in 1..MaxTierRows, t \in FileTiers, s \in IcpScores}

(***************************************************************************)
(* enrichment/deduplicator.py: deduplicate and merge_and_dedup.  A path is  *)
(* text or None; csv gives the frame read from, or written to, each path.   *)
(***************************************************************************)
MaxListRows == 2     \* rows in each CSV file given to the entry points

\* line 97: df["_key"] = df.apply(dedup_key, axis=1)
WithKey(row) ==
    [f \in (DOMAIN row) \cup {"_key"} |->
        IF f = "_key" THEN dedup_key(row) ELSE row[f]]

\* the loop of lines 103-160 from row k on
RECURSIVE find_duplicates_from(_, _, _, _)
find_duplicates_from(st, k, frame, strat) ==
    IF k > Len(frame) THEN st
    ELSE find_duplicates_from(LoopBody(st, frame[k], k, frame, strat),
                              k + 1, frame, strat)

\* lines 162-165: the two frames returned, for the frame with its keys and
\* the locals at the end of the loop
ReturnedFrames(keyed, st) ==
    [clean_df |-> [k \in 1..Len(st.kept_indices) |->
                      DropKey(keyed[st.kept_indices[k]])],
     dups_df |-> [k \in 1..Len(st.dup_records) |->
                      DropKey(st.dup_records[k])]]

\* lines 99-160: the locals at the end of the loop over the keyed frame
LoopOver(keyed, strat) ==
    find_duplicates_from([kept_indices |-> <<>>, dup_records |-> <<>>,
                          processed_keys |-> <<>>, matched |-> FALSE],
                         1, keyed, strat)

\* line 97
Keyed(frame) == [k \in 1..Len(frame) |-> WithKey(frame[k])]

\* lines 84-165: the two frames find_duplicates returns for a frame
find_duplicates(frame, strat) ==
    ReturnedFrames(Keyed(frame), LoopOver(Keyed(frame), strat))

DotCsv == <<".", "c", "s", "v">>

DuplicatesFlaggedCsv ==
    <<"_","d","u","p","l","i","c","a","t","e","s","_",
      "f","l","a","g","g","e","d",".","c","s","v">>

\* line 181: output_path.replace(".csv", "_duplicates_flagged.csv")
RECURSIVE replace_csv(_)
replace_csv(path) ==
    IF Len(path) < Len(DotCsv) THEN path
    ELSE IF SubSeq(path, 1, Len(DotCsv)) = DotCsv
         THEN DuplicatesFlaggedCsv
                 \o replace_csv(SubSeq(path, Len(DotCsv) + 1, Len(path)))
         ELSE <<path[1]>> \o replace_csv(SubSeq(path, 2, Len(path)))

\* head.rstrip("/")
RECURSIVE rstrip_slash(_)
rstrip_slash(head) ==
    IF head # <<>> /\ head[Len(head)] = "/"
    THEN rstrip_slash(SubSeq(head, 1, Len(head) - 1))
    ELSE head

\* os.path.dirname: the path up to its last slash, without the slashes at
\* the end unless it is made of slashes only
dirname(path) ==
    LET slashes == {k \in 1..Len(path) : path[k] = "/"}
        head == IF slashes = {} THEN <<>> ELSE SubSeq(path, 1, Max(slashes))
    IN  IF rstrip_slash(head) = <<>> THEN head ELSE rstrip_slash(head)

\* what a call of an entry point gives: the files, the frame returned and
\* the exception raised
Outcome(files, frame, exception) ==
    [csv |-> files, returned |-> frame, raised |-> exception]

\* to_csv: the file at path holds the frame
WriteCsv(files, path, frame) ==
    [q \in (DOMAIN files) \cup {path} |-> IF q = path THEN frame ELSE files[q]]

\* lines 192-204: the two frames are saved and the clean one is returned
SaveOutputs(files, out, found) ==
    Outcome(IF found.dups_df # <<>>
            THEN WriteCsv(WriteCsv(files, out, found.clean_df),
                          replace_csv(out), found.dups_df)
            ELSE WriteCsv(files, out, found.clean_df),
            found.clean_df, "")

\* lines 178-190: the frame is read and deduplicated
LoadAndDedup(files, input_path, out, strat) ==
    IF input_path = None THEN Outcome(files, <<>>, "ValueError")
    ELSE IF input_path \notin DOMAIN files
         THEN Outcome(files, <<>>, "FileNotFoundError")
    ELSE IF dirname(out) = <<>>
         THEN Outcome(files, <<>>, "FileNotFoundError")
    ELSE SaveOutputs(files, out, find_duplicates(files[input_path], strat))

\* lines 170-204
deduplicate(files, input_path, output_path, strat) ==
    IF output_path = None /\ input_path = None
    THEN Outcome(files, <<>>, "AttributeError")
    ELSE LoadAndDedup(files, input_path,
                      IF output_path = None THEN input_path ELSE output_path,
                      strat)

\* column assignment: df[column] = value given by cell(row)
WithColumn(frame, column, cell(_)) ==
    [k \in 1..Len(frame) |->
        [f \in (DOMAIN frame[k]) \cup {column} |->
            IF f = column THEN cell(frame[k]) ELSE frame[k][f]]]

\* lines 241-247: the two lists tagged, list B's ids shifted, concatenated
merged_frame(df_a, df_b) ==
    LET a_max == Max({df_a[k].id : k \in 1..Len(df_a)})
        list_a(row) == "list_a"
        list_b(row) == "list_b"
        shifted(row) == row.id + a_max
    IN  WithColumn(df_a, "merge_source", list_a)
           \o WithColumn(WithColumn(df_b, "merge_source", list_b), "id", shifted)

\* the frame has the column
has_column(frame, column) == \A k \in 1..Len(frame) : column \in DOMAIN frame[k]

\* lines 222-250: the two files are read (lines 237-238), the ids of both
\* lists are looked up (line 245, list B's first), the merged frame is built
\* and dropped, and deduplicate is called without an input path (line 250)
merge_and_dedup(files, list_a_path, list_b_path, output_path, strat) ==
    IF list_a_path \notin DOMAIN files \/ list_b_path \notin DOMAIN files
    THEN Outcome(files, <<>>, "FileNotFoundError")
    ELSE IF ~has_column(files[list_b_path], "id")
            \/ ~has_column(files[list_a_path], "id")
    THEN Outcome(files, <<>>, "KeyError")
    ELSE deduplicate(files, None, output_path, strat)

ListAPath == <<"d", "/", "a", ".", "c", "s", "v">>
ListBPath == <<"d", "/", "b", ".", "c", "s", "v">>
OutPath == <<"d", "/", "o", ".", "c", "s", "v">>
BarePath == <<"o", ".", "c", "s", "v">>
RootPath == <<"/", "o", ".", "c", "s", "v">>
\* the path of no file
MissingPath == <<"d", "/", "c", ".", "c", "s", "v">>

\* the (name, company) cells of the rows of the two lists
ListContacts ==
    { <<DrRohiniSrivathsa, MicrosoftIndia>>,
      <<RohiniSrivathsa, Microsoft>>,
      <<AnitaRana, Razorpay>> }

\* row k of a CSV file
ListRow(k, contact, icp) ==
    [id |-> k, name |-> contact[1], company |-> contact[2], icp_score |-> icp]

\* the frames pd.read_csv gives for the files
Lists ==
    UNION { { [k \in 1..n |-> ListRow(k, pick[k][1], pick[k][2])] :
                pick \in [1..n -> ListContacts \X (1..MaxIcp)] } :
            n \in 1..MaxListRows }

\* a CSV file of one row without an id column
ListsWithoutId ==
    { <<[name |-> contact[1], company |-> contact[2], icp_score |-> 1]>> :
         contact \in ListContacts }

\* the calls made of the two entry points
MergeCalls ==
    { [fn |-> "deduplicate", input_path |-> ListAPath, output_path |-> o] :
         o \in {None, OutPath, BarePath, RootPath} }
    \cup
    { [fn |-> "merge_and_dedup", list_a_path |-> ListAPath,
       list_b_path |-> b, output_path |-> OutPath] :
         b \in {ListBPath, MissingPath} }
    \cup
    { [fn |-> "merge_and_dedup", list_a_path |-> ListAPath,
       list_b_path |-> ListBPath, output_path |-> BarePath] }

InitMerge ==
    /\ strategy \in Strategies
    /\ df = <<>>
    /\ i = 1
    /\ kept_indices = <<>>
    /\ dup_records = <<>>
    /\ processed_keys = <<>>
    /\ clean_df = <<>>
    /\ dups_df = <<>>
    /\ pc = "idle"
    /\ \E a \in Lists, b \in Lists \cup ListsWithoutId :
          csv = [q \in {ListAPath, ListBPath} |-> IF q = ListAPath THEN a ELSE b]
    /\ call \in MergeCalls
    /\ returned = <<>>
    /\ mraised = ""
    /\ mpc = "call"
    /\ NormIdle
    /\ RouterIdle
    /\ ApolloIdle
    /\ OutreachIdle

\* the call is over with this outcome
EntryPointOver(out) ==
    /\ csv' = out.csv
    /\ returned' = out.returned
    /\ mraised' = out.raised
    /\ mpc' = "done"
    /\ UNCHANGED <<call, dedup_vars, norm_vars, router_vars, apollo_vars,
                   outreach_vars>>

\* deduplicate(input_path, output_path)
Deduplicate ==
    /\ mpc = "call"
    /\ call.fn = "deduplicate"
    /\ EntryPointOver(deduplicate(csv, call.input_path, call.output_path, strategy))

\* merge_and_dedup(list_a_path, list_b_path, output_path)
MergeAndDedup ==
    /\ mpc = "call"
    /\ call.fn = "merge_and_dedup"
    /\ EntryPointOver(merge_and_dedup(csv, call.list_a_path, call.list_b_path,
                               call.output_path, strategy))

NextMerge == Deduplicate \/ MergeAndDedup

SpecMerge == InitMerge /\ [][NextMerge]_vars

(***************************************************************************)
(* route_all(input_path, output_path): the file is read and sorted, every   *)
(* row is routed by a new LeadRouter(), and the routed frame is written.    *)
(***************************************************************************)
\* the file read and the file written
RoutedInput == <<"d", "/", "r", ".", "c", "s", "v">>
RoutedOutput == <<"d", "/", "r", "o", ".", "c", "s", "v">>

\* a file of C-Suite rows, one more than the senior AEs of TEAM can take,
\* every row with a company of its own
OverbookedFile ==
    [k \in 1..(TEAM["Senior AE"][1].capacity + TEAM["Senior AE"][2].capacity + 1)
        |-> FileRow(k, CompanyNo(k), "C-Suite", ICP_THRESHOLDS.high)]

\* the files route_all is given: a file with a header only, the files of up
\* to MaxRows rows, the files of one tier, and the overbooked one
RoutedFiles == {<<>>} \cup Files \cup TierFiles \cup {OverbookedFile}

RouteAllCalls ==
    [fn : {"route_all"}, input_path : {RoutedInput, MissingPath},
     output_path : {RoutedOutput, BarePath}]

\* the columns of pd.DataFrame(list of dicts)
columns(frame) == UNION {DOMAIN frame[k] : k \in 1..Len(frame)}

\* lines 224-248: the columns _print_summary reads
SummaryColumns ==
    {"routing_status", "leadership_review", "owner_role", "name", "company",
     "icp_score", "owner_name"}

\* route_all is called; no router exists yet
InitRouteAll ==
    /\ call \in RouteAllCalls
    /\ \E file \in RoutedFiles : csv = [q \in {RoutedInput} |-> file]
    /\ returned = <<>>
    /\ mraised = ""
    /\ mpc = "idle"
    /\ team = <<>>
    /\ assignment_count = <<>>
    /\ company_owner = <<>>
    /\ sequence_ids = {}
    /\ routed = <<>>
    /\ result = <<>>
    /\ raised = ""
    /\ flagged = {}
    /\ calls = 0
    /\ rows = <<>>
    /\ results = <<>>
    /\ rpc = "call"
    /\ DedupIdle
    /\ NormIdle
    /\ ApolloIdle
    /\ OutreachIdle

\* lines 202-208: the file is read and sorted, and LeadRouter() is built
\* with TEAM; pd.read_csv raises when there is no file at input_path
ReadContacts ==
    /\ rpc = "call"
    /\ IF call.input_path \in DOMAIN csv
       THEN /\ rows' = sort_values(csv[call.input_path])
            /\ team' = NewRouter(TEAM).team
            /\ assignment_count' = NewRouter(TEAM).assignment_count
            /\ company_owner' = NewRouter(TEAM).company_owner
            /\ sequence_ids' = NewRouter(TEAM).sequence_ids
            /\ rpc' = "loop"
            /\ raised' = raised
       ELSE /\ raised' = "FileNotFoundError"
            /\ rpc' = "raised"
            /\ UNCHANGED <<rows, team, assignment_count, company_owner,
                           sequence_ids>>
    /\ UNCHANGED <<routed, result, flagged, calls, results,
                   dedup_vars, norm_vars, merge_vars, apollo_vars,
                   outreach_vars>>

\* lines 210-213: one iteration; an exception of route() ends route_all
RouteRow ==
    /\ rpc = "loop"
    /\ calls < Len(rows)
    /\ LET c == rows[calls + 1]
           out == route(Router(team, assignment_count, company_owner,
                               sequence_ids), c)
       IN  /\ Routed(c, out)
           /\ IF out.raised = ""
              THEN /\ results' = Append(results, Update(c, out.result))
                   /\ rpc' = rpc
              ELSE /\ results' = results
                   /\ rpc' = "raised"
    /\ UNCHANGED <<team, rows, dedup_vars, norm_vars, merge_vars, apollo_vars,
                   outreach_vars>>

\* lines 215-221: the directory of output_path is made, which raises for a
\* path without one; the routed frame is written; _print_summary raises
\* when a column it reads is not there; the frame is returned
WriteRouted ==
    /\ rpc = "loop"
    /\ calls = Len(rows)
    /\ IF dirname(call.output_path) = <<>>
       THEN /\ raised' = "FileNotFoundError"
            /\ rpc' = "raised"
            /\ csv' = csv
       ELSE /\ csv' = WriteCsv(csv, call.output_path, results)
            /\ IF SummaryColumns \subseteq columns(results)
               THEN raised' = raised /\ rpc' = "done"
               ELSE raised' = "KeyError" /\ rpc' = "raised"
    /\ UNCHANGED <<team, assignment_count, company_owner, sequence_ids, routed,
                   result, flagged, calls, rows, results,
                   call, returned, mraised, mpc,
                   dedup_vars, norm_vars, apollo_vars, outreach_vars>>

NextRouteAll == ReadContacts \/ RouteRow \/ WriteRouted

SpecRouteAll == InitRouteAll /\ [][NextRouteAll]_vars

(***************************************************************************)
(* A run: LeadRouter(team) is built with a roster of the caller's, and the  *)
(* contacts of a list are given to route() one after the other.             *)
(***************************************************************************)
\* rosters whose members all have the same capacity
EvenTeams == {TeamWith([k \in 1..3 |-> c]) : c \in 1..MaxCapacity}

\* lines 72-76, and the list of contacts to route
InitRun ==
    /\ team \in EvenTeams
    /\ rows \in Files \cup TierFiles
    /\ assignment_count = NewRouter(team).assignment_count
    /\ company_owner = NewRouter(team).company_owner
    /\ sequence_ids = NewRouter(team).sequence_ids
    /\ routed = <<>>
    /\ result = <<>>
    /\ raised = ""
    /\ flagged = {}
    /\ calls = 0
    /\ results = <<>>
    /\ rpc = "run"
    /\ DedupIdle
    /\ NormIdle
    /\ MergeIdle
    /\ ApolloIdle
    /\ OutreachIdle

\* lines 128-189: route() is called with the next contact; results keeps each
\* contact with what route() returned for it; the run ends with an exception
RouteNext ==
    /\ rpc = "run"
    /\ calls < Len(rows)
    /\ LET c == rows[calls + 1]
           out == route(Router(team, assignment_count, company_owner,
                               sequence_ids), c)
       IN  /\ Routed(c, out)
           /\ IF out.raised = ""
              THEN /\ results' = Append(results, Update(c, out.result))
                   /\ rpc' = rpc
              ELSE /\ results' = results
                   /\ rpc' = "raised"
    /\ UNCHANGED <<team, rows, dedup_vars, norm_vars, merge_vars, apollo_vars,
                   outreach_vars>>

NextRun == RouteNext

SpecRun == InitRun /\ [][NextRun]_vars

(***************************************************************************)
(* Values of JSON that are not text.  null is None; a number, the two       *)
(* booleans and a list carry a tag, so that they can stand where a text     *)
(* stands and the source's tests of type and truth can be made on them.     *)
(***************************************************************************)
Number(n) == <<"<number>", n>>

JsonTrue == <<"<True>">>

JsonFalse == <<"<False>">>

List(items) == <<"<list>">> \o items

IsNumber(value) == Len(value) = 2 /\ value[1] = "<number>"

\* isinstance(value, list)
IsList(value) == value # <<>> /\ value[1] = "<list>"

Items(list) == Tail(list)

\* isinstance(value, str)
IsStr(value) ==
    /\ value \notin {None, JsonTrue, JsonFalse}
    /\ ~IsNumber(value)
    /\ ~IsList(value)

\* null where an object is expected: a dict is a function on its keys, and
\* null is told from a dict by its only key
Null == [null |-> TRUE]

IsNull(dict) == "null" \in DOMAIN dict

\* a value that is not an object where an object is expected (a text, a
\* number, a boolean, a list), told from a dict in the same way
NonObject(value) == [non_object |-> value]

IsNonObject(dict) == "non_object" \in DOMAIN dict

\* not value: None, "", False, 0 and [] are false
Falsy(value) == value \in {None, <<>>, JsonFalse, Number(0), List(<<>>)}

\* str() of an integer
StrNumber(n) == IF n < 0 THEN <<"-">> \o StrInt(0 - n) ELSE StrInt(n)

\* repr() of a character that is not printable: \t, \n and \r by name,
\* the others by code point
Unprintable ==
    [c \in Whitespace \ {" "} |->
        CASE
             c = "\t" -> <<"\\", "t">>
          [] c = "\n" -> <<"\\", "n">>
          [] c = "\r" -> <<"\\", "r">>
          [] c = "\f" -> <<"\\", "x", "0", "c">>
          [] c = VT -> <<"\\", "x", "0", "b">>
          [] c = FS -> <<"\\", "x", "1", "c">>
          [] c = GS -> <<"\\", "x", "1", "d">>
          [] c = RS -> <<"\\", "x", "1", "e">>
          [] c = US -> <<"\\", "x", "1", "f">>
          [] c = "<U+0085>" -> <<"\\", "x", "8", "5">>
          [] c = "<U+00A0>" -> <<"\\", "x", "a", "0">>
          [] c = "<U+1680>" -> <<"\\", "u", "1", "6", "8", "0">>
          [] c = "<U+2000>" -> <<"\\", "u", "2", "0", "0", "0">>
          [] c = "<U+2001>" -> <<"\\", "u", "2", "0", "0", "1">>
          [] c = "<U+2002>" -> <<"\\", "u", "2", "0", "0", "2">>
          [] c = "<U+2003>" -> <<"\\", "u", "2", "0", "0", "3">>
          [] c = "<U+2004>" -> <<"\\", "u", "2", "0", "0", "4">>
          [] c = "<U+2005>" -> <<"\\", "u", "2", "0", "0", "5">>
          [] c = "<U+2006>" -> <<"\\", "u", "2", "0", "0", "6">>
          [] c = "<U+2007>" -> <<"\\", "u", "2", "0", "0", "7">>
          [] c = "<U+2008>" -> <<"\\", "u", "2", "0", "0", "8">>
          [] c = "<U+2009>" -> <<"\\", "u", "2", "0", "0", "9">>
          [] c = "<U+200A>" -> <<"\\", "u", "2", "0", "0", "a">>
          [] c = "<U+2028>" -> <<"\\", "u", "2", "0", "2", "8">>
          [] c = "<U+2029>" -> <<"\\", "u", "2", "0", "2", "9">>
          [] c = "<U+202F>" -> <<"\\", "u", "2", "0", "2", "f">>
          [] c = "<U+205F>" -> <<"\\", "u", "2", "0", "5", "f">>
          [] c = "<U+3000>" -> <<"\\", "u", "3", "0", "0", "0">>]

\* the quote repr() puts around a text: the double one for a text that has
\* single quotes and no double one
repr_quote(text) ==
    IF (\E k \in 1..Len(text) : text[k] = "'")
       /\ ~(\E k \in 1..Len(text) : text[k] = "\"")
    THEN "\""
    ELSE "'"

\* what repr() writes for one character of a text
repr_char(c, quote) ==
    IF c = "\\" THEN <<"\\", "\\">>
    ELSE IF c = quote THEN <<"\\", c>>
    ELSE IF c \in DOMAIN Unprintable THEN Unprintable[c]
    ELSE <<c>>

\* the characters of a text as repr() writes them, after those written
RECURSIVE repr_chars(_, _, _)
repr_chars(text, quote, written) ==
    IF text = <<>> THEN written
    ELSE repr_chars(Tail(text), quote, written \o repr_char(text[1], quote))

\* str(value) and repr(value)
RECURSIVE PyStr(_), PyRepr(_), ReprItems(_)
PyStr(value) ==
    IF value = None THEN <<"N", "o", "n", "e">>
    ELSE IF value = JsonTrue THEN <<"T", "r", "u", "e">>
    ELSE IF value = JsonFalse THEN <<"F", "a", "l", "s", "e">>
    ELSE IF IsNumber(value) THEN StrNumber(value[2])
    ELSE IF IsList(value) THEN <<"[">> \o ReprItems(Items(value)) \o <<"]">>
    ELSE value

PyRepr(value) ==
    IF IsStr(value)
    THEN <<repr_quote(value)>> \o repr_chars(value, repr_quote(value), <<>>)
            \o <<repr_quote(value)>>
    ELSE PyStr(value)

ReprItems(items) ==
    IF items = <<>> THEN <<>>
    ELSE IF Len(items) = 1 THEN PyRepr(items[1])
    ELSE PyRepr(items[1]) \o <<",", " ">> \o ReprItems(Tail(items))

(***************************************************************************)
(* enrichment/apollo_enricher.py: ApolloClient.people_match.  The server's  *)
(* answers are the model's input: for each request either the exception     *)
(* requests.post raises, or a status code with a body.                      *)
(***************************************************************************)
MaxEarlierRequests == 9   \* requests the client made before people_match

APOLLO_SETTINGS == [rate_limit_rpm |-> 10, max_retries |-> 3, retry_delay_s |-> 6]

\* subclasses of requests.exceptions.RequestException
RequestExceptions == {"ConnectionError", "Timeout", "JSONDecodeError"}

\* lines 65-72: the pause _rate_limit makes once _request_count is count
rate_limit_sleep(count) ==
    IF count % APOLLO_SETTINGS.rate_limit_rpm = 0
    THEN 60
    ELSE APOLLO_SETTINGS.retry_delay_s

\* the value of one decimal digit
DigitValue(ch) == CHOOSE d \in 0..9 : DigitChars[d + 1] = ch

\* the value of a text of decimal digits and underscores, after the value
\* of the digits before it
RECURSIVE DigitsValue(_, _)
DigitsValue(text, value) ==
    IF text = <<>> THEN value
    ELSE IF text[1] = "_" THEN DigitsValue(Tail(text), value)
    ELSE DigitsValue(Tail(text), 10 * value + DigitValue(text[1]))

\* the text without its sign
Unsigned(text) ==
    IF text # <<>> /\ text[1] \in {"+", "-"} THEN Tail(text) ELSE text

\* decimal digits with single underscores between them
is_digits(body) ==
    /\ body # <<>>
    /\ \A k \in 1..Len(body) : body[k] \in Digits \cup {"_"}
    /\ body[1] \in Digits
    /\ body[Len(body)] \in Digits
    /\ \A k \in 1..(Len(body) - 1) : ~(body[k] = "_" /\ body[k + 1] = "_")

\* the blanks int() skips around a literal: those of ASCII but for
\* \x1c-\x1f, and the whitespace beyond ASCII
IntSpace == Whitespace \ {FS, GS, RS, US}

\* index of the first character at or after p that int() does not skip
RECURSIVE SkipIntSpace(_, _)
SkipIntSpace(text, p) ==
    IF p > Len(text) \/ text[p] \notin IntSpace THEN p
    ELSE SkipIntSpace(text, p + 1)

\* index of the last character at or before p that int() does not skip
RECURSIVE SkipIntSpaceBack(_, _)
SkipIntSpaceBack(text, p) ==
    IF p < 1 \/ text[p] \notin IntSpace THEN p
    ELSE SkipIntSpaceBack(text, p - 1)

\* the text int() reads: without the blanks around it
IntStrip(text) ==
    SubSeq(text, SkipIntSpace(text, 1), SkipIntSpaceBack(text, Len(text)))

\* int(text) does not raise ValueError: blanks around, a sign, and digits
is_int_literal(text) == \E body \in {Unsigned(IntStrip(text))} : is_digits(body)

\* int(text)
int_literal(text) ==
    IF IntStrip(text)[1] = "-"
    THEN 0 - DigitsValue(Unsigned(IntStrip(text)), 0)
    ELSE DigitsValue(Unsigned(IntStrip(text)), 0)

\* lines 159-165; the dash of the bands is written in ASCII here
headcount_band(n) ==
    IF n < 10 THEN <<"1", "-", "1", "0">>
    ELSE IF n < 50 THEN <<"1", "1", "-", "5", "0">>
    ELSE IF n < 200 THEN <<"5", "1", "-", "2", "0", "0">>
    ELSE IF n < 500 THEN <<"2", "0", "1", "-", "5", "0", "0">>
    ELSE IF n < 1000 THEN <<"5", "0", "1", "-", "1", "0", "0", "0">>
    ELSE IF n < 5000 THEN <<"1", "0", "0", "1", "-", "5", "0", "0", "0">>
    ELSE <<"5", "0", "0", "0", "+">>

\* lines 153-167, for the "estimated_num_employees" cell: null, a number, a
\* boolean, a text or a list
parse_headcount(num) ==
    IF Falsy(num) THEN <<>>
    ELSE IF IsNumber(num) THEN headcount_band(num[2])
    ELSE IF num = JsonTrue THEN headcount_band(1)
    ELSE IF IsStr(num) /\ is_int_literal(num) THEN headcount_band(int_literal(num))
    ELSE PyStr(num)

\* ", ".join(list)
RECURSIVE JoinComma(_)
JoinComma(list) ==
    IF list = <<>> THEN <<>>
    ELSE IF Len(list) = 1 THEN list[1]
    ELSE list[1] \o <<",", " ">> \o JoinComma(Tail(list))

\* Python's truth value of a cell
Truthy(cell) == ~Falsy(cell)

\* a or b
Or(a, b) == IF Truthy(a) THEN a ELSE b

\* not value, for what stands where an object is expected: None, {} and a
\* value that is not an object and is false
NoDict(dict) ==
    IF IsNull(dict) THEN TRUE
    ELSE IF IsNonObject(dict) THEN Falsy(dict.non_object)
    ELSE DOMAIN dict = {}

\* line 133: person.get("organization", {}) or {}
organization(person_) ==
    IF NoDict(Get(person_, "organization", <<>>))
    THEN <<>>
    ELSE Get(person_, "organization", <<>>)

\* line 140: person.get("departments", []) or []
departments_of(person_) == Or(Get(person_, "departments", List(<<>>)), List(<<>>))

\* the characters of a text, as str.join goes through them
Chars(text) == [k \in 1..Len(text) |-> <<text[k]>>]

\* line 140: ", ".join(value) does not raise TypeError: value is a list of
\* texts, or a text
joinable(value) ==
    IF IsList(value) THEN \A k \in 1..Len(Items(value)) : IsStr(Items(value)[k])
    ELSE IsStr(value)

\* line 140: ", ".join(value)
joined(value) ==
    IF IsList(value) THEN JoinComma(Items(value)) ELSE JoinComma(Chars(value))

\* line 146: person.get("personal_emails") or [None]
personal_emails(person_) == Or(Get(person_, "personal_emails", None), List(<<None>>))

\* line 146: value[0] of a list or of a text
first_of(value) == IF IsList(value) THEN Items(value)[1] ELSE <<value[1]>>

\* lines 144-148: the email cell of the result
parse_email(person_) ==
    Or(Or(Get(person_, "email", None), first_of(personal_emails(person_))), <<>>)

\* line 146 raises TypeError: there is no email and personal_emails is a
\* number or true, which have no [0]
email_raises(person_) ==
    /\ Falsy(Get(person_, "email", None))
    /\ ~IsList(personal_emails(person_))
    /\ ~IsStr(personal_emails(person_))

\* lines 135-141
parsed_fields(person_) ==
    [linkedin_url |-> Get(person_, "linkedin_url", <<>>),
     company_size |->
         parse_headcount(Get(organization(person_), "estimated_num_employees", None)),
     funding_stage |-> Get(organization(person_), "latest_funding_stage", <<>>),
     apollo_seniority |-> Get(person_, "seniority", <<>>),
     apollo_dept |-> joined(departments_of(person_))]

\* what _parse_person returns, with the exception it raises instead
ParsedPerson(dict, exception) == [dict |-> dict, raised |-> exception]

\* lines 128-150; person is what data.get("person", {}) gave.  A person that
\* is not an object has no .get (line 133), nor has such an organization
\* (line 137); departments that cannot be joined (line 140) and
\* personal_emails without a [0] (line 146) raise TypeError
parse_person(person_, include_email) ==
    IF NoDict(person_) THEN ParsedPerson(<<>>, "")
    ELSE IF IsNonObject(person_) THEN ParsedPerson(<<>>, "AttributeError")
    ELSE IF IsNonObject(organization(person_))
    THEN ParsedPerson(<<>>, "AttributeError")
    ELSE IF ~joinable(departments_of(person_)) THEN ParsedPerson(<<>>, "TypeError")
    ELSE IF ~include_email THEN ParsedPerson(parsed_fields(person_), "")
    ELSE IF email_raises(person_) THEN ParsedPerson(<<>>, "TypeError")
    ELSE ParsedPerson(Update(parsed_fields(person_),
                             [email |-> parse_email(person_)]), "")

\* line 113: resp.status_code == 429
is_rate_limited(status_code) == status_code = 429

\* what one iteration of the loop of lines 93-124 does: "return" with a
\* dict, "raise" with an exception, or "continue" after a pause
Iteration(then, dict, exception, pause) ==
    [then |-> then, person |-> dict, raised |-> exception, sleep |-> pause]

\* lines 121-124: the except clause, in iteration n
except_RequestException(n) ==
    Iteration("continue", <<>>, "",
              IF n < APOLLO_SETTINGS.max_retries THEN 10 * n ELSE 0)

\* line 105: what _parse_person gave is returned, or its exception leaves
\* people_match
return_parsed(parsed) ==
    Iteration(IF parsed.raised = "" THEN "return" ELSE "raise",
              parsed.dict, parsed.raised, 0)

\* lines 103-124: iteration n, once requests.post has given resp or raised;
\* decode_error is the class of what resp.json() raises for a body that is
\* not JSON, and a body that is not an object has no .get (line 104)
attempt_once(resp, n, decode_error, include_email) ==
    IF resp.exception # "" THEN except_RequestException(n)
    ELSE IF resp.status_code = 200
         THEN IF resp.body = "not_json"
              THEN IF decode_error \in RequestExceptions
                   THEN except_RequestException(n)
                   ELSE Iteration("raise", <<>>, decode_error, 0)
              ELSE IF IsNull(resp.data) \/ IsNonObject(resp.data)
              THEN Iteration("raise", <<>>, "AttributeError", 0)
              ELSE return_parsed(parse_person(Get(resp.data, "person", <<>>),
                                              include_email))
    ELSE IF resp.status_code = 422 THEN Iteration("return", <<>>, "", 0)
    ELSE IF is_rate_limited(resp.status_code)
         THEN Iteration("continue", <<>>, "", 60 * n)
    ELSE Iteration("return", <<>>, "", 0)

\* person objects of Apollo's answers
PersonFull ==
    [linkedin_url |-> <<"h","t","t","p","s",":","/","/","l","i","n","k","e",
                        "d","i","n",".","c","o","m","/","i","n","/","r","s">>,
     seniority |-> <<"c", "_", "s", "u", "i", "t", "e">>,
     departments |-> List(<< <<"s", "a", "l", "e", "s">>, <<"f", "i", "n", "a", "n", "c", "e">> >>),
     email |-> <<"r", "s", "@", "m", "s", ".", "c", "o">>,
     organization |-> [estimated_num_employees |-> Number(120),
                       latest_funding_stage |-> <<"S", "e", "r", "i", "e", "s", " ", "B">>]]

PersonBare ==
    [linkedin_url |-> <<"h","t","t","p","s",":","/","/","l","i","n","k","e",
                        "d","i","n",".","c","o","m","/","i","n","/","a","r">>,
     personal_emails |-> List(<< <<"a","r","@","h","o","m","e",".","i","n">> >>),
     organization |-> [estimated_num_employees |-> Number(5000)]]

\* a person whose cells are null
PersonNulls ==
    [linkedin_url |-> None, seniority |-> None, departments |-> None,
     email |-> None, personal_emails |-> None, organization |-> Null]

\* the person of an organization with the given headcount cell
PersonOf(num) ==
    [departments |-> List(<<>>), personal_emails |-> List(<<>>),
     organization |-> [estimated_num_employees |-> num]]

\* headcount cells that are not a positive number; int() takes the text of
\* digits and not the one that begins with \x1c
HeadcountCells ==
    {None, <<>>, Number(0), <<"1", "2", "0">>, <<FS, "1", "2", "0">>,
     <<"a", "b", "c">>}

\* persons whose cells are of another type than Apollo documents: an
\* organization that is a text, departments that are a text, a number or a
\* list with a number in it, personal_emails that are a text or a number
PersonsOfOtherTypes ==
    {[organization |-> NonObject(<<"A", "c", "m", "e">>)],
     [organization |-> NonObject(Number(0))],
     [departments |-> <<"h", "r">>],
     [departments |-> Number(3)],
     [departments |-> List(<< <<"h", "r">>, Number(3) >>)],
     [personal_emails |-> <<"a", "@", "b">>],
     [personal_emails |-> Number(3)],
     [email |-> <<"a", "@", "b">>, personal_emails |-> Number(3)]}

\* what stands for the person in an answer: an object, {}, null, or a value
\* that is not an object
Persons ==
    {PersonFull, PersonBare, PersonNulls, <<>>, Null,
     NonObject(<<"n", "o", "n", "e">>), NonObject(List(<<>>))}
    \cup {PersonOf(num) : num \in HeadcountCells}
    \cup PersonsOfOtherTypes

\* the server's answer to one request
Answer(exception, status_code, body, data) ==
    [exception |-> exception, status_code |-> status_code, body |-> body,
     data |-> data]

\* the answers whose 200s carry one of the persons
AnswersWith(persons) ==
    { Answer("", 200, "json", [person |-> p]) : p \in persons }
    \cup { Answer("", 200, "json", <<>>), Answer("", 200, "not_json", <<>>) }
    \cup { Answer("", s, "", <<>>) : s \in {422, 429, 500} }
    \cup { Answer(e, 0, "", <<>>) : e \in {"ConnectionError", "Timeout"} }

\* the 200s whose body is JSON and not an object: null and a list
AnswersNotObjects ==
    { Answer("", 200, "json", Null),
      Answer("", 200, "json", NonObject(List(<<>>))) }

Answers == AnswersWith(Persons) \cup AnswersNotObjects

\* the answers to the requests after the first one
LaterAnswers == AnswersWith({PersonFull, <<>>}) \cup AnswersNotObjects

\* a client exists and people_match has been called
InitApollo ==
    /\ \E first \in Answers, later \in [2..APOLLO_SETTINGS.max_retries -> LaterAnswers] :
          responses = [k \in 1..APOLLO_SETTINGS.max_retries |->
                          IF k = 1 THEN first ELSE later[k]]
    /\ json_error \in {"JSONDecodeError", "ValueError"}
    /\ export_email \in BOOLEAN
    /\ request_count \in {0, MaxEarlierRequests - 1, MaxEarlierRequests}
    /\ attempt = 0
    /\ slept = 0
    /\ person = <<>>
    /\ araised = ""
    /\ apc = "loop"
    /\ DedupIdle
    /\ NormIdle
    /\ RouterIdle
    /\ MergeIdle
    /\ OutreachIdle

\* lines 93-95 and 67-72: the next iteration begins; _rate_limit counts the
\* request and goes to sleep
RateLimit ==
    /\ apc = "loop"
    /\ attempt < APOLLO_SETTINGS.max_retries
    /\ attempt' = attempt + 1
    /\ request_count' = request_count + 1
    /\ apc' = "pause"
    /\ UNCHANGED <<responses, json_error, export_email, slept, person, araised,
                   dedup_vars, norm_vars, router_vars, merge_vars,
                   outreach_vars>>

\* lines 69-72 and 96-101: the sleep of _rate_limit is over and the request
\* is sent
Post ==
    /\ apc = "pause"
    /\ slept' = slept + rate_limit_sleep(request_count)
    /\ apc' = "request"
    /\ UNCHANGED <<responses, json_error, export_email, attempt, request_count,
                   person, araised, dedup_vars, norm_vars, router_vars,
                   merge_vars, outreach_vars>>

\* lines 96-124: requests.post gives its answer or raises; people_match
\* returns, raises, goes to sleep before the next iteration, or goes on to
\* it at once
Respond ==
    /\ apc = "request"
    /\ \E it \in {attempt_once(responses[attempt], attempt, json_error,
                               export_email)} :
          /\ person' = it.person
          /\ araised' = it.raised
          /\ apc' = IF it.then # "continue" THEN "done"
                    ELSE IF it.sleep > 0 THEN "backoff"
                    ELSE "loop"
    /\ UNCHANGED <<responses, json_error, export_email, attempt, request_count,
                   slept, dedup_vars, norm_vars, router_vars, merge_vars,
                   outreach_vars>>

\* lines 115 and 124: the sleep after a 429 or a request exception is over
BackOff ==
    /\ apc = "backoff"
    /\ slept' = slept + attempt_once(responses[attempt], attempt, json_error,
                                     export_email).sleep
    /\ apc' = "loop"
    /\ UNCHANGED <<responses, json_error, export_email, attempt, request_count,
                   person, araised, dedup_vars, norm_vars, router_vars,
                   merge_vars, outreach_vars>>

\* line 126: the loop is over, {} is returned
Exhausted ==
    /\ apc = "loop"
    /\ attempt = APOLLO_SETTINGS.max_retries
    /\ person' = <<>>
    /\ apc' = "done"
    /\ UNCHANGED <<responses, json_error, export_email, attempt, request_count,
                   slept, araised, dedup_vars, norm_vars, router_vars,
                   merge_vars, outreach_vars>>

NextApollo == RateLimit \/ Post \/ Respond \/ BackOff \/ Exhausted

SpecApollo == InitApollo /\ [][NextApollo]_vars

\* people_match runs on: every requests.post has timeout=10 and every pause
\* is a finite time.sleep
FairSpecApollo == SpecApollo /\ WF_vars(NextApollo)

(***************************************************************************)
(* persona_generation/confidence_checker.py.  The raw LLM output is either  *)
(* a text, or a JSON object given by its value: parse_llm_output cuts the   *)
(* output from its first { to its last } and hands that to json.loads,      *)
(* whose verdict on a text that is not JSON is part of the input.           *)
(***************************************************************************)
\* text[:n]
Prefix(text, n) == SubSeq(text, 1, Min({n, Len(text)}))

\* sub in text
Contains(text, sub) ==
    \E p \in 1..(Len(text) - Len(sub) + 1) : SubSeq(text, p, p + Len(sub) - 1) = sub

\* text.find(ch), 0 when ch is not there
Find(text, ch) ==
    IF \E k \in 1..Len(text) : text[k] = ch
    THEN Min({k \in 1..Len(text) : text[k] = ch})
    ELSE 0

\* text.rfind(ch), 0 when ch is not there
RFind(text, ch) ==
    IF \E k \in 1..Len(text) : text[k] = ch
    THEN Max({k \in 1..Len(text) : text[k] = ch})
    ELSE 0

\* text.split()
RECURSIVE Words(_)
Words(text) ==
    IF Strip(text) = <<>> THEN <<>>
    ELSE <<FirstWord(text)>>
            \o Words(SubSeq(Strip(text), Len(FirstWord(text)) + 1, Len(Strip(text))))

\* sep.join(list)
RECURSIVE Join(_, _)
Join(sep, list) ==
    IF list = <<>> THEN <<>>
    ELSE IF Len(list) = 1 THEN list[1]
    ELSE list[1] \o sep \o Join(sep, Tail(list))

\* [f(x) for x in list]
Map(list, f(_)) == [k \in 1..Len(list) |-> f(list[k])]

GENERIC_PHRASES ==
    << <<"a", "s", " ", "a", " ", "l", "e", "a", "d", "e", "r">>, <<"i","n"," ","t","h","e"," ","t","e","c","h"," ","s",
                        "p","a","c","e">>, <<"p","a","s","s","i","o","n","a","t","e"," ","a",
                                             "b","o","u","t">>,
       <<"d","r","i","v","i","n","g"," ","i","n","n","o","v","a","t","i","o",
         "n">>, <<"t","h","o","u","g","h","t"," ","l","e","a","d",
                               "e","r">>, <<"s","e","a","s","o","n","e","d"," ","p","r","o",
                                                 "f","e","s","s","i","o","n","a","l">>,
       <<"d", "y", "n", "a", "m", "i", "c">>, <<"v", "i", "s", "i", "o", "n", "a", "r", "y">>, <<"a","t"," ","t","h","e"," ","f","o","r","e","f",
                                 "r","o","n","t">>, <<"e", "c", "o", "s", "y", "s", "t", "e", "m">>,
       <<"l","e","v","e","r","a","g","i","n","g"," ","t","e","c","h","n","o",
         "l","o","g","y">>, <<"d","i","s","r","u","p","t","i","n","g"," ","t",
                                  "h","e">>, <<"g","a","m","e"," ","c","h","a","n","g","e","r">>,
       <<"c", "u", "t", "t", "i", "n", "g", " ", "e", "d", "g", "e">>, <<"b","e","s","t"," ","i","n"," ","c","l","a","s","s">>, <<"w","o","r","l","d"," ","c","l","a","s","s">>, <<"n","e","x","t"," ","l","e","v","e","l">> >>

MIN_PERSONA_CHARS == 80
MIN_HOOK_CHARS == 50
MIN_THEME_CHARS == 20
REQUIRED_THEMES == 2

HIGH == <<"H", "I", "G", "H">>
MEDIUM == <<"M", "E", "D", "I", "U", "M">>
LOW == <<"L", "O", "W">>

\* the character U+0060, which a string of this module cannot hold
Backquote == "<backquote>"

Fence == <<Backquote, Backquote, Backquote>>

\* re.sub(r"^```(?:json)?\s*", "", text)
strip_fence_start(text) ==
    IF Prefix(text, 3) # Fence THEN text
    ELSE IF SubSeq(text, 4, Min({7, Len(text)})) = <<"j", "s", "o", "n">>
         THEN SubSeq(text, SkipSpace(text, 8), Len(text))
         ELSE SubSeq(text, SkipSpace(text, 4), Len(text))

\* re.sub(r"\s*```$", "", text)
strip_fence_end(text) ==
    IF Len(text) >= 3 /\ SubSeq(text, Len(text) - 2, Len(text)) = Fence
    THEN SubSeq(text, 1, SkipSpaceBack(text, Len(text) - 3))
    ELSE text

\* re.sub(r",\s*([}\]])", r"\1", text)
RECURSIVE fix_trailing_commas(_)
fix_trailing_commas(text) ==
    IF text = <<>> THEN <<>>
    ELSE IF /\ text[1] = ","
            /\ SkipSpace(text, 2) <= Len(text)
            /\ text[SkipSpace(text, 2)] \in {"}", "]"}
         THEN fix_trailing_commas(SubSeq(text, SkipSpace(text, 2), Len(text)))
         ELSE <<text[1]>> \o fix_trailing_commas(Tail(text))

\* what parse_llm_output returns
Parsed(dict, message) == [parsed |-> dict, error |-> message]

\* lines 60-82, for the stripped text without its fences
parse_json_text(text, message) ==
    IF Find(text, "{") = 0 \/ RFind(text, "}") = 0
    THEN Parsed(None, <<"N","o"," ","J","S","O","N"," ","o","b","j","e","c",
                        "t"," ","f","o","u","n","d"," ","i","n"," ","o","u",
                        "t","p","u","t",":"," ">> \o Prefix(text, 100))
    ELSE Parsed(None,
                <<"J","S","O","N"," ","p","a","r","s","e"," ","e","r","r","o",
                  "r",":"," ">> \o message \o <<" ", "-", " ", "r", "a", "w", ":", " ">>
                   \o Prefix(fix_trailing_commas(
                                SubSeq(text, Find(text, "{"), RFind(text, "}"))),
                             200))

\* lines 47-82
parse_llm_output(raw_output) ==
    IF raw_output.json = "object" THEN Parsed(raw_output.value, <<>>)
    ELSE IF raw_output.text \in {None, <<>>} \/ Strip(raw_output.text) = <<>>
         THEN Parsed(None, <<"E","m","p","t","y"," ","r","e","s","p","o","n",
                             "s","e"," ","f","r","o","m"," ","L","L","M">>)
    ELSE parse_json_text(
             Strip(strip_fence_end(strip_fence_start(Strip(raw_output.text)))),
             raw_output.error)

\* lines 95-99, for one required field
field_issues(parsed, field) ==
    IF field \notin DOMAIN parsed THEN << <<"M","i","s","s","i","n","g"," ","f","i","e","l",
                                            "d",":"," ">> \o field >>
    ELSE IF Falsy(parsed[field]) THEN << <<"E","m","p","t","y"," ","f","i","e","l","d",":",
                                           " ">> \o field >>
    ELSE <<>>

\* lines 101-106
themes_issues(parsed) ==
    IF <<"p","e","r","s","o","n","a","l","i","z","a","t","i","o","n","_","t",
         "h","e","m","e","s">> \notin DOMAIN parsed THEN <<>>
    ELSE IF ~IsList(parsed[<<"p","e","r","s","o","n","a","l","i","z","a","t",
                             "i","o","n","_","t","h","e","m","e","s">>])
    THEN << <<"p","e","r","s","o","n","a","l","i","z","a","t","i","o","n","_",
              "t","h","e","m","e","s"," ","m","u","s","t"," ","b","e"," ","a",
              " ","l","i","s","t">> >>
    ELSE IF Len(Items(parsed[<<"p","e","r","s","o","n","a","l","i","z","a","t",
                               "i","o","n","_","t","h","e","m","e","s">>])) < REQUIRED_THEMES
    THEN << <<"N","e","e","d"," ","a","t"," ","l","e","a","s","t"," ">> \o StrInt(REQUIRED_THEMES) \o <<" ","t","h","e","m","e","s",","," ","g","o","t",
                                                             " ">>
               \o StrInt(Len(Items(parsed[<<"p","e","r","s","o","n","a","l","i","z","a","t",
                                            "i","o","n","_","t","h","e","m","e","s">>]))) >>
    ELSE <<>>

\* lines 108-110
confidence_issues(parsed) ==
    IF /\ <<"c", "o", "n", "f", "i", "d", "e", "n", "c", "e">> \in DOMAIN parsed
       /\ parsed[<<"c", "o", "n", "f", "i", "d", "e", "n", "c", "e">>] \notin {HIGH, MEDIUM, LOW}
    THEN << <<"I","n","v","a","l","i","d"," ","c","o","n","f","i","d","e","n",
              "c","e"," ","v","a","l","u","e",":"," ">> \o PyStr(parsed[<<"c","o","n","f","i","d","e","n","c","e">>]) >>
    ELSE <<>>

\* lines 85-112: the list of issues; the result is valid when it is empty
validate_structure(parsed) ==
    field_issues(parsed, <<"p","e","r","s","o","n","a","_","s","u","m","m",
                           "a","r","y">>)
    \o field_issues(parsed, <<"c","o","n","t","e","x","t","_","h","o","o","k">>)
    \o field_issues(parsed, <<"p","e","r","s","o","n","a","l","i","z","a","t",
                              "i","o","n","_","t","h","e","m","e","s">>)
    \o field_issues(parsed, <<"c","o","n","f","i","d","e","n","c","e">>)
    \o themes_issues(parsed)
    \o confidence_issues(parsed)

\* lines 119-122
check_generic_phrases(text) ==
    SelectSeq(GENERIC_PHRASES, LAMBDA phrase : Contains(Lower(text), phrase))

StopWords == { <<"a", "n", "d">>, <<"t", "h", "e">>, <<"o", "f">>, <<"a", "t">>, <<"f", "o", "r">>, <<"&">> }

\* what check_specificity has found: flags and reasons
Found(flags, reasons) == [flags |-> flags, reasons |-> reasons]

NoneFound == Found(0, <<>>)

\* both lists of findings
Both(a, b) == Found(a.flags + b.flags, a.reasons \o b.reasons)

\* lines 146-152: a field shorter than its minimum
too_short(name, text, min) ==
    IF Len(text) < min
    THEN Found(1, << name \o <<" ","t","o","o"," ","s","h","o","r","t"," ","(">> \o StrInt(Len(text))
                       \o <<" ","c","h","a","r","s",","," ","m","i","n"," ">> \o StrInt(min) \o <<")">> >>)
    ELSE NoneFound

\* len(str(t)) < MIN_THEME_CHARS
is_short_theme(t) == Len(PyStr(t)) < MIN_THEME_CHARS

\* lines 154-157
short_themes(themes) ==
    IF SelectSeq(themes, is_short_theme) # <<>>
    THEN Found(1, << StrInt(Len(SelectSeq(themes, is_short_theme)))
                       \o <<" ","t","h","e","m","e","(","s",")"," ","t","o",
                            "o"," ","s","h","o","r","t">> >>)
    ELSE NoneFound

\* lines 160-164
generic_phrases(all_text) ==
    IF check_generic_phrases(all_text) # <<>>
    THEN Found(2, << <<"G","e","n","e","r","i","c"," ","p","h","r","a","s",
                       "e","s"," ","d","e","t","e","c","t","e","d",":"," ">>
                       \o PyStr(List(check_generic_phrases(all_text))) >>)
    ELSE NoneFound

\* lines 167-177; the note's dash is written in ASCII here
not_referenced(all_text, company, title) ==
    IF /\ \A w \in Range(Words(Lower(company))) :
             Len(w) > 3 => ~Contains(Lower(all_text), w)
       /\ \A w \in Range(Words(Lower(title))) :
             w \notin StopWords => ~Contains(Lower(all_text), w)
    THEN Found(2, << <<"O","u","t","p","u","t"," ","d","o","e","s","n","'",
                       "t"," ","r","e","f","e","r","e","n","c","e"," ","c",
                       "o","n","t","a","c","t","'","s"," ","c","o","m","p",
                       "a","n","y"," ","o","r"," ","r","o","l","e"," ","-",
                       " ","t","o","o"," ","g","e","n","e","r","i","c">> >>)
    ELSE NoneFound

\* lines 180-183
self_reported(llm_confidence) ==
    IF llm_confidence = LOW
    THEN Found(3, << <<"L","L","M"," ","s","e","l","f","-","r","e","p","o",
                       "r","t","e","d"," ","L","O","W"," ","c","o","n","f",
                       "i","d","e","n","c","e">> >>)
    ELSE NoneFound

\* lines 186-191
final_confidence(found, llm_confidence) ==
    IF found.flags = 0 /\ llm_confidence = HIGH THEN HIGH
    ELSE IF found.flags <= 2 THEN MEDIUM
    ELSE LOW

\* what "for t in themes" goes through: the items of a list, the characters
\* of a str
Iterated(themes) ==
    IF IsList(themes) THEN Items(themes)
    ELSE [k \in 1..Len(themes) |-> <<themes[k]>>]

\* lines 141-143: the three locals
persona_of(parsed) == PyStr(Get(parsed, <<"p","e","r","s","o","n","a","_","s","u","m","m",
                                          "a","r","y">>, <<>>))

hook_of(parsed) == PyStr(Get(parsed, <<"c","o","n","t","e","x","t","_","h","o","o","k">>, <<>>))

parsed_themes(parsed) == Get(parsed, <<"p","e","r","s","o","n","a","l","i","z","a","t",
                                       "i","o","n","_","t","h","e","m","e","s">>, List(<<>>))

\* line 160: " ".join([persona, hook] + [str(t) for t in themes])
AllText(parsed) ==
    Join(<<" ">>, <<persona_of(parsed), hook_of(parsed)>>
                     \o Map(Iterated(parsed_themes(parsed)), PyStr))

\* lines 138-183, findings in the order of the checks
Findings(parsed, company, title) ==
    Both(Both(Both(Both(Both(
        too_short(<<"p","e","r","s","o","n","a","_","s","u","m","m","a","r",
                    "y">>, persona_of(parsed), MIN_PERSONA_CHARS),
        too_short(<<"c","o","n","t","e","x","t","_","h","o","o","k">>, hook_of(parsed), MIN_HOOK_CHARS)),
        short_themes(Iterated(parsed_themes(parsed)))),
        generic_phrases(AllText(parsed))),
        not_referenced(AllText(parsed), company, title)),
        self_reported(Get(parsed, <<"c","o","n","f","i","d","e","n","c","e">>, LOW)))

\* what check_specificity returns, with the exception it raises instead
Assessed(final, reasons, exception) ==
    [final |-> final, reasons |-> reasons, raised |-> exception]

\* lines 186-193
Assess(found, llm_confidence) ==
    Assessed(final_confidence(found, llm_confidence), found.reasons, "")

\* lines 167-168: the cell has .lower(), which a str has and None, NaN (a
\* float), a boolean, a number and a list have not
has_lower(cell) == IsStr(cell) /\ cell # NaN

\* lines 125-193; themes that are neither a list nor a str cannot be gone
\* through (line 154), and a cell that is not text has no .lower() (lines
\* 167-168)
check_specificity(parsed, contact) ==
    IF ~IsList(parsed_themes(parsed)) /\ ~IsStr(parsed_themes(parsed))
    THEN Assessed(<<>>, <<>>, "TypeError")
    ELSE IF \/ ~has_lower(Get(contact, "company", <<>>))
            \/ ~has_lower(Get(contact, "title", <<>>))
    THEN Assessed(<<>>, <<>>, "AttributeError")
    ELSE Assess(Findings(parsed, Get(contact, "company", <<>>),
                         Get(contact, "title", <<>>)),
                Get(parsed, <<"c","o","n","f","i","d","e","n","c","e">>, LOW))

\* what validate_persona returns
Persona(summary, hook, themes, flag, notes) ==
    [persona_summary |-> summary, context_hook |-> hook,
     personalization_themes |-> themes, confidence_flag |-> flag,
     validation_notes |-> notes]

\* str(t).strip()
stripped_str(t) == Strip(PyStr(t))

\* lines 245-250: the result packed from the parsed output and the findings
Packed(parsed, assessed) ==
    Persona(Strip(Get(parsed, <<"p","e","r","s","o","n","a","_","s","u","m","m",
                                "a","r","y">>, <<>>)),
            Strip(Get(parsed, <<"c","o","n","t","e","x","t","_","h","o","o","k">>, <<>>)),
            Join(<<" ", "|", " ">>, Map(Iterated(parsed_themes(parsed)), stripped_str)),
            assessed.final,
            Join(<<" ", "|", " ">>, assessed.reasons))

\* the result with its exception, "" when validate_persona returns
Validated(dict, exception) == [result |-> dict, raised |-> exception]

\* lines 235-259, for a parsed output; a persona_summary or a context_hook
\* that is not a str has no .strip() (lines 246-247)
validate_parsed(parsed, issues, assessed) ==
    IF issues # <<>>
    THEN Validated(Persona(<<>>, <<>>, <<>>, LOW,
                           <<"S","T","R","U","C","T","_","E","R","R","O","R",
                             ":"," ">> \o Join(<<" ", "|", " ">>, issues)), "")
    ELSE IF assessed.raised # "" THEN Validated(<<>>, assessed.raised)
    ELSE IF \/ ~IsStr(Get(parsed, <<"p","e","r","s","o","n","a","_","s","u","m","m",
                                    "a","r","y">>, <<>>))
            \/ ~IsStr(Get(parsed, <<"c","o","n","t","e","x","t","_","h","o","o","k">>, <<>>))
    THEN Validated(<<>>, "AttributeError")
    ELSE Validated(Packed(parsed, assessed), "")

\* line 229: not parsed, for what parse_llm_output returned
not_parsed(output) ==
    IF output.error # <<>> THEN TRUE ELSE DOMAIN output.parsed = {}

\* lines 200-259
validate_persona(raw_llm_output, contact) ==
    IF not_parsed(parse_llm_output(raw_llm_output))
    THEN Validated(Persona(<<>>, <<>>, <<>>, LOW,
                           <<"P","A","R","S","E","_","E","R","R","O","R",":",
                             " ">> \o parse_llm_output(raw_llm_output).error),
                   "")
    ELSE validate_parsed(parse_llm_output(raw_llm_output).parsed,
                         validate_structure(parse_llm_output(raw_llm_output).parsed),
                         check_specificity(parse_llm_output(raw_llm_output).parsed,
                                           contact))

(***************************************************************************)
(* outreach/message_builder.py.  The message templates are the module's    *)
(* own, character by character (their dash is written in ASCII).           *)
(***************************************************************************)
\* lines 44-48
LI_CONNECT_A ==
    <<"H","i"," ","{","f","i","r","s","t","_","n","a","m","e","}",","," ",
      "s","p","o","t","t","e","d"," ","y","o","u"," ","o","n"," ","t","h",
      "e"," ","T","e","c","h","S","p","a","r","k","s"," ","s","p","e","a",
      "k","e","r"," ","l","i","s","t"," ","-"," ","y","o","u","r"," ","w",
      "o","r","k"," ","a","t"," ","{","t","h","e","i","r","_","c","o","m",
      "p","a","n","y","}"," ","o","n"," ","{","p","e","r","s","o","n","a",
      "l","i","z","a","t","i","o","n","_","1","}"," ","c","a","u","g","h",
      "t"," ","m","y"," ","a","t","t","e","n","t","i","o","n","."," ","W",
      "o","u","l","d"," ","l","o","v","e"," ","t","o"," ","c","o","n","n",
      "e","c","t"," ","a","h","e","a","d"," ","o","f"," ","t","h","e"," ",
      "e","v","e","n","t","."," ","-"," ","{","s","e","n","d","e","r","_",
      "n","a","m","e","}">>

\* lines 49-53
LI_CONNECT_B ==
    <<"H","i"," ","{","f","i","r","s","t","_","n","a","m","e","}",","," ",
      "c","o","m","i","n","g"," ","a","c","r","o","s","s"," ","y","o","u",
      "r"," ","n","a","m","e"," ","a","h","e","a","d"," ","o","f"," ","T",
      "e","c","h","S","p","a","r","k","s"," ","-"," ","f","o","u","n","d",
      "e","r","s"," ","I"," ","s","p","e","a","k"," ","w","i","t","h"," ",
      "a","r","e"," ","i","n","c","r","e","a","s","i","n","g","l","y"," ",
      "a","s","k","i","n","g"," ","a","b","o","u","t"," ","{","p","e","r",
      "s","o","n","a","l","i","z","a","t","i","o","n","_","1","}","."," ",
      "K","e","e","n"," ","t","o"," ","c","o","n","n","e","c","t"," ","a",
      "n","d"," ","e","x","c","h","a","n","g","e"," ","n","o","t","e","s",
      "."," ","-"," ","{","s","e","n","d","e","r","_","n","a","m","e","}">>

\* lines 54-58
LI_CONNECT_C ==
    <<"H","i"," ","{","f","i","r","s","t","_","n","a","m","e","}",","," ",
      "a","t","t","e","n","d","i","n","g"," ","T","e","c","h","S","p","a",
      "r","k","s"," ","n","e","x","t"," ","w","e","e","k"," ","a","n","d",
      " ","n","o","t","i","c","e","d"," ","y","o","u","r"," ","b","a","c",
      "k","g","r","o","u","n","d"," ","a","t"," ","{","t","h","e","i","r",
      "_","c","o","m","p","a","n","y","}","."," ","W","o","r","k","i","n",
      "g"," ","o","n"," ","p","r","o","b","l","e","m","s"," ","a","r","o",
      "u","n","d"," ","{","p","e","r","s","o","n","a","l","i","z","a","t",
      "i","o","n","_","1","}"," ","-"," ","w","o","u","l","d"," ","l","o",
      "v","e"," ","t","o"," ","c","o","n","n","e","c","t","."," ","-"," ",
      "{","s","e","n","d","e","r","_","n","a","m","e","}">>

\* lines 62-71
DM_A ==
    <<"H","e","y"," ","{","f","i","r","s","t","_","n","a","m","e","}",",",
      "\n","\n","G","r","e","a","t"," ","c","o","n","n","e","c","t","i","n",
      "g"," ","-"," ","y","o","u","r"," ","w","o","r","k"," ","a","t"," ",
      "{","t","h","e","i","r","_","c","o","m","p","a","n","y","}"," ","i",
      "s"," ","i","n","t","e","r","e","s","t","i","n","g",","," ","p","a",
      "r","t","i","c","u","l","a","r","l","y"," ","a","r","o","u","n","d",
      " ","{","p","e","r","s","o","n","a","l","i","z","a","t","i","o","n",
      "_","1","}",".","\n","\n","{","c","o","n","t","e","x","t","_","h","o",
      "o","k","}","\n","\n","N","o","t"," ","p","i","t","c","h","i","n","g",
      " ","a","n","y","t","h","i","n","g"," ","-"," ","j","u","s","t"," ",
      "t","h","o","u","g","h","t"," ","i","t"," ","w","a","s"," ","d","i",
      "r","e","c","t","l","y"," ","r","e","l","e","v","a","n","t"," ","t",
      "o"," ","w","h","a","t"," ","y","o","u","'","r","e"," ","n","a","v",
      "i","g","a","t","i","n","g","."," ","H","a","p","p","y"," ","t","o",
      " ","s","h","a","r","e"," ","w","h","a","t"," ","w","e","'","r","e",
      " ","s","e","e","i","n","g"," ","a","c","r","o","s","s"," ","s","i",
      "m","i","l","a","r"," ","c","o","m","p","a","n","i","e","s"," ","i",
      "f"," ","u","s","e","f","u","l",".","\n","\n","{","s","e","n","d","e",
      "r","_","n","a","m","e","}","\n","{","s","e","n","d","e","r","_","t",
      "i","t","l","e","}">>

\* lines 73-82
DM_B ==
    <<"H","e","y"," ","{","f","i","r","s","t","_","n","a","m","e","}",",",
      "\n","\n","A","p","p","r","e","c","i","a","t","e","d"," ","c","o","n",
      "n","e","c","t","i","n","g","."," ","Y","o","u","r"," ","f","i","r",
      "m","'","s"," ","p","o","r","t","f","o","l","i","o"," ","i","s"," ",
      "i","n","t","e","r","e","s","t","i","n","g"," ","-"," ","p","a","r",
      "t","i","c","u","l","a","r","l","y"," ","g","i","v","e","n"," ","h",
      "o","w"," ","m","a","n","y"," ","c","o","m","p","a","n","i","e","s",
      " ","a","r","e"," ","c","o","m","p","e","t","i","n","g"," ","i","n",
      " ","p","r","i","c","e","-","s","e","n","s","i","t","i","v","e"," ",
      "c","a","t","e","g","o","r","i","e","s"," ","r","i","g","h","t"," ",
      "n","o","w",".","\n","\n","{","c","o","n","t","e","x","t","_","h","o",
      "o","k","}","\n","\n","W","o","r","t","h"," ","a"," ","2","0","-","m",
      "i","n"," ","c","a","l","l"," ","t","o"," ","s","h","a","r","e"," ",
      "w","h","a","t"," ","w","e","'","r","e"," ","s","e","e","i","n","g",
      " ","a","c","r","o","s","s"," ","t","h","e"," ","e","c","o","s","y",
      "s","t","e","m","?"," ","M","i","g","h","t"," ","b","e"," ","u","s",
      "e","f","u","l"," ","c","o","n","t","e","x","t"," ","f","o","r"," ",
      "a"," ","c","o","u","p","l","e"," ","o","f"," ","y","o","u","r"," ",
      "p","o","r","t","f","o","l","i","o"," ","f","o","u","n","d","e","r",
      "s"," ","s","p","e","c","i","f","i","c","a","l","l","y",".","\n","\n",
      "{","s","e","n","d","e","r","_","n","a","m","e","}","\n","{","s","e",
      "n","d","e","r","_","t","i","t","l","e","}">>

\* lines 84-88
DM_C ==
    <<"H","e","y"," ","{","f","i","r","s","t","_","n","a","m","e","}",",",
      "\n","\n","G","o","o","d"," ","t","o"," ","c","o","n","n","e","c","t",
      " ","a","t"," ","T","e","c","h","S","p","a","r","k","s","."," ","Q",
      "u","i","c","k"," ","q","u","e","s","t","i","o","n"," ","-"," ","i",
      "s"," ","{","p","e","r","s","o","n","a","l","i","z","a","t","i","o",
      "n","_","1","}"," ","s","o","m","e","t","h","i","n","g"," ","y","o",
      "u","r"," ","t","e","a","m"," ","i","s"," ","a","c","t","i","v","e",
      "l","y"," ","w","o","r","k","i","n","g"," ","t","h","r","o","u","g",
      "h"," ","r","i","g","h","t"," ","n","o","w","?"," ","W","e","'","v",
      "e"," ","b","e","e","n"," ","t","a","l","k","i","n","g"," ","t","o",
      " ","a"," ","f","e","w"," ","p","e","o","p","l","e"," ","h","e","r",
      "e"," ","w","i","t","h"," ","t","h","e"," ","s","a","m","e"," ","c",
      "h","a","l","l","e","n","g","e",".","\n","\n","{","s","e","n","d","e",
      "r","_","n","a","m","e","}">>

\* lines 92-92
EMAIL_SUBJECT_A ==
    <<"S","o","m","e","t","h","i","n","g"," ","r","e","l","e","v","a","n",
      "t"," ","f","r","o","m"," ","T","e","c","h","S","p","a","r","k","s",
      " ","w","e","e","k"," ","-"," ","{","f","i","r","s","t","_","n","a",
      "m","e","}">>

\* lines 93-93
EMAIL_SUBJECT_B ==
    <<"P","o","s","t","-","T","e","c","h","S","p","a","r","k","s"," ","-",
      " ","o","n","e"," ","t","h","i","n","g"," ","w","o","r","t","h"," ",
      "p","a","s","s","i","n","g"," ","t","o"," ","y","o","u","r"," ","p",
      "o","r","t","f","o","l","i","o">>

\* lines 94-94
EMAIL_SUBJECT_C ==
    <<"F","o","l","l","o","w","i","n","g"," ","u","p"," ","f","r","o","m",
      " ","T","e","c","h","S","p","a","r","k","s"," ","-"," ","{","f","i",
      "r","s","t","_","n","a","m","e","}">>

\* lines 96-112
EMAIL_BODY_A ==
    <<"H","i"," ","{","f","i","r","s","t","_","n","a","m","e","}",",","\n",
      "\n","H","o","p","e"," ","t","h","e"," ","T","e","c","h","S","p","a",
      "r","k","s"," ","e","n","e","r","g","y"," ","h","a","s"," ","c","a",
      "r","r","i","e","d"," ","i","n","t","o"," ","t","h","i","s"," ","w",
      "e","e","k",".","\n","\n","I","'","v","e"," ","b","e","e","n"," ","t",
      "h","i","n","k","i","n","g"," ","a","b","o","u","t"," ","s","o","m",
      "e","t","h","i","n","g"," ","r","e","l","e","v","a","n","t"," ","t",
      "o"," ","{","t","h","e","i","r","_","c","o","m","p","a","n","y","}",
      " ","-"," ","{","p","e","r","s","o","n","a","l","i","z","a","t","i",
      "o","n","_","1","}","."," ","I","t","'","s"," ","a"," ","p","a","t",
      "t","e","r","n"," ","w","e"," ","k","e","e","p"," ","s","e","e","i",
      "n","g"," ","w","i","t","h"," ","f","o","u","n","d","e","r","s"," ",
      "a","t"," ","y","o","u","r"," ","s","t","a","g","e",":"," ","t","h",
      "e"," ","c","o","m","m","e","r","c","i","a","l"," ","i","n","t","e",
      "l","l","i","g","e","n","c","e"," ","w","o","r","k"," ","t","h","a",
      "t"," ","s","h","o","u","l","d"," ","b","e"," ","i","n","f","o","r",
      "m","i","n","g"," ","p","r","i","c","i","n","g"," ","a","n","d"," ",
      "c","o","m","p","e","t","i","t","i","v","e"," ","p","o","s","i","t",
      "i","o","n","i","n","g"," ","i","s"," ","e","i","t","h","e","r"," ",
      "d","e","l","a","y","e","d",","," ","m","a","n","u","a","l",","," ",
      "o","r"," ","n","o","t"," ","h","a","p","p","e","n","i","n","g"," ",
      "a","t"," ","t","h","e"," ","f","r","e","q","u","e","n","c","y"," ",
      "n","e","e","d","e","d",".","\n","\n","{","c","o","n","t","e","x","t",
      "_","h","o","o","k","}","\n","\n","T","h","e"," ","c","o","m","p","a",
      "n","i","e","s"," ","g","e","t","t","i","n","g"," ","a","h","e","a",
      "d"," ","o","f"," ","t","h","i","s"," ","a","r","e"," ","u","s","i",
      "n","g"," ","a","u","t","o","m","a","t","e","d"," ","d","a","t","a",
      " ","p","i","p","e","l","i","n","e","s"," ","t","o"," ","d","o"," ",
      "i","n"," ","r","e","a","l","-","t","i","m","e"," ","w","h","a","t",
      " ","u","s","e","d"," ","t","o"," ","t","a","k","e"," ","a","n"," ",
      "a","n","a","l","y","s","t"," ","a"," ","w","e","e","k"," ","-"," ",
      "m","o","n","i","t","o","r","i","n","g"," ","c","o","m","p","e","t",
      "i","t","o","r"," ","p","r","i","c","i","n","g",","," ","t","r","a",
      "c","k","i","n","g"," ","a","s","s","o","r","t","m","e","n","t"," ",
      "g","a","p","s",","," ","b","e","n","c","h","m","a","r","k","i","n",
      "g"," ","b","e","f","o","r","e"," ","b","o","a","r","d"," ","r","e",
      "v","i","e","w","s",".","\n","\n","I","f"," ","a","n","y"," ","o","f",
      " ","t","h","i","s"," ","r","e","s","o","n","a","t","e","s",","," ",
      "I"," ","c","a","n"," ","i","n","t","r","o","d","u","c","e"," ","y",
      "o","u"," ","t","o"," ","a"," ","Y","C","-","b","a","c","k","e","d",
      " ","c","o","m","p","a","n","y"," ","t","h","a","t"," ","s","p","e",
      "c","i","a","l","i","z","e","s"," ","i","n"," ","e","x","a","c","t",
      "l","y"," ","t","h","i","s","."," ","T","h","e","y"," ","w","o","r",
      "k"," ","w","i","t","h"," ","s","e","v","e","r","a","l"," ","I","n",
      "d","i","a","n"," ","f","o","u","n","d","e","r","s"," ","i","n"," ",
      "y","o","u","r"," ","c","a","t","e","g","o","r","y"," ","a","n","d",
      " ","t","h","e"," ","c","o","n","v","e","r","s","a","t","i","o","n",
      " ","i","s"," ","w","o","r","t","h"," ","2","0"," ","m","i","n","u",
      "t","e","s",".","\n","\n","W","o","r","t","h"," ","a"," ","q","u","i",
      "c","k"," ","i","n","t","r","o","?","\n","\n","{","s","e","n","d","e",
      "r","_","n","a","m","e","}","\n","{","s","e","n","d","e","r","_","t",
      "i","t","l","e","}","\n","{","s","e","n","d","e","r","_","e","m","a",
      "i","l","}">>

\* lines 114-128
EMAIL_BODY_B ==
    <<"H","i"," ","{","f","i","r","s","t","_","n","a","m","e","}",",","\n",
      "\n","G","o","o","d"," ","w","e","e","k"," ","a","t"," ","T","e","c",
      "h","S","p","a","r","k","s","."," ","W","a","n","t","e","d"," ","t",
      "o"," ","f","o","l","l","o","w"," ","u","p"," ","o","n"," ","s","o",
      "m","e","t","h","i","n","g"," ","w","o","r","t","h"," ","s","h","a",
      "r","i","n","g"," ","w","i","t","h"," ","y","o","u","r"," ","p","o",
      "r","t","f","o","l","i","o",".","\n","\n","{","c","o","n","t","e","x",
      "t","_","h","o","o","k","}","\n","\n","S","e","v","e","r","a","l"," ",
      "o","f"," ","y","o","u","r"," ","p","o","r","t","f","o","l","i","o",
      " ","c","o","m","p","a","n","i","e","s"," ","a","r","e"," ","l","i",
      "k","e","l","y"," ","n","a","v","i","g","a","t","i","n","g"," ","t",
      "h","i","s"," ","r","i","g","h","t"," ","n","o","w"," ","-"," ","p",
      "a","r","t","i","c","u","l","a","r","l","y"," ","t","h","e"," ","o",
      "n","e","s"," ","c","o","m","p","e","t","i","n","g"," ","o","n"," ",
      "p","r","i","c","e"," ","i","n"," ","c","o","n","s","u","m","e","r",
      " ","c","a","t","e","g","o","r","i","e","s","."," ","{","p","e","r",
      "s","o","n","a","l","i","z","a","t","i","o","n","_","1","}",".","\n",
      "\n","I"," ","k","n","o","w"," ","a"," ","Y","C","-","b","a","c","k",
      "e","d"," ","c","o","m","p","a","n","y"," ","t","h","a","t","'","s",
      " ","b","u","i","l","t"," ","s","p","e","c","i","f","i","c","a","l",
      "l","y"," ","f","o","r"," ","t","h","i","s",":"," ","p","r","i","c",
      "i","n","g"," ","i","n","t","e","l","l","i","g","e","n","c","e",",",
      " ","c","o","m","p","e","t","i","t","i","v","e"," ","b","e","n","c",
      "h","m","a","r","k","i","n","g",","," ","a","n","d"," ","d","a","t",
      "a"," ","a","u","t","o","m","a","t","i","o","n"," ","f","o","r"," ",
      "g","r","o","w","t","h","-","s","t","a","g","e"," ","c","o","m","p",
      "a","n","i","e","s","."," ","T","h","e","y","'","v","e"," ","w","o",
      "r","k","e","d"," ","w","i","t","h"," ","f","o","u","n","d","e","r",
      "s"," ","a","c","r","o","s","s"," ","s","e","v","e","r","a","l"," ",
      "t","o","p"," ","I","n","d","i","a","n"," ","V","C"," ","p","o","r",
      "t","f","o","l","i","o","s",".","\n","\n","I","f"," ","i","t","'","s",
      " ","w","o","r","t","h"," ","1","5"," ","m","i","n","u","t","e","s",
      " ","f","o","r"," ","a"," ","p","o","r","t","f","o","l","i","o"," ",
      "i","n","t","r","o",","," ","I","'","m"," ","h","a","p","p","y"," ",
      "t","o"," ","m","a","k","e"," ","t","h","e"," ","c","o","n","n","e",
      "c","t","i","o","n",".","\n","\n","{","s","e","n","d","e","r","_","n",
      "a","m","e","}","\n","{","s","e","n","d","e","r","_","t","i","t","l",
      "e","}","\n","{","s","e","n","d","e","r","_","e","m","a","i","l","}">>

\* lines 130-140
EMAIL_BODY_C ==
    <<"H","i"," ","{","f","i","r","s","t","_","n","a","m","e","}",",","\n",
      "\n","Q","u","i","c","k"," ","f","o","l","l","o","w","-","u","p"," ",
      "f","r","o","m"," ","T","e","c","h","S","p","a","r","k","s"," ","l",
      "a","s","t"," ","w","e","e","k",".","\n","\n","{","c","o","n","t","e",
      "x","t","_","h","o","o","k","}"," ","-"," ","w","a","n","t","e","d",
      " ","t","o"," ","s","h","a","r","e"," ","s","o","m","e","t","h","i",
      "n","g"," ","r","e","l","e","v","a","n","t"," ","a","r","o","u","n",
      "d"," ","{","p","e","r","s","o","n","a","l","i","z","a","t","i","o",
      "n","_","1","}",".","\n","\n","T","h","e","r","e","'","s"," ","a"," ",
      "Y","C","-","b","a","c","k","e","d"," ","c","o","m","p","a","n","y",
      " ","I","'","d"," ","b","e"," ","h","a","p","p","y"," ","t","o"," ",
      "i","n","t","r","o","d","u","c","e"," ","y","o","u"," ","t","o"," ",
      "i","f"," ","t","h","i","s"," ","i","s"," ","o","n"," ","y","o","u",
      "r"," ","r","a","d","a","r","."," ","T","h","e","y"," ","w","o","r",
      "k"," ","w","i","t","h"," ","t","e","a","m","s"," ","y","o","u","r",
      " ","s","i","z","e"," ","o","n"," ","e","x","a","c","t","l","y"," ",
      "t","h","i","s"," ","p","r","o","b","l","e","m",".","\n","\n","L","e",
      "t"," ","m","e"," ","k","n","o","w"," ","i","f"," ","u","s","e","f",
      "u","l",".","\n","\n","{","s","e","n","d","e","r","_","n","a","m","e",
      "}">>

\* str.upper()
Upper(s) ==
    [k \in 1..Len(s) |->
        IF \E j \in 1..Len(Lowercase) : Lowercase[j] = s[k]
        THEN Uppercase[CHOOSE j \in 1..Len(Lowercase) : Lowercase[j] = s[k]]
        ELSE s[k]]

\* lines 147-160
select_variant(c) ==
    IF Get(c, "industry_vertical", <<>>) = <<"V", "C", "/", "P", "E">> THEN "B"
    ELSE IF /\ Get(c, "seniority_tier", "") = "C-Suite"
            /\ Get(c, "industry_vertical", <<>>) \in
                  { <<"F", "i", "n", "t", "e", "c", "h">>, <<"D", "2", "C", "/", "E", "c", "o", "m", "m">>, <<"S", "a", "a", "S", "/", "B", "2", "B">>, <<"D","e","e","p","T","e","c","h","/","A","I">>,
                    <<"E", "d", "t", "e", "c", "h">>, <<"M", "o", "b", "i", "l", "i", "t", "y">> }
         THEN "A"
    ELSE "C"

\* what a readiness gate returns
Gate(ok, reason) == [ok |-> ok, reason |-> reason]

\* lines 173 and 188: contact.get("confidence_flag") == "LOW"
low_confidence(c) == Get(c, "confidence_flag", None) = LOW

\* lines 175 and 190
already_in_sequence(c) == Upper(Str(Get(c, "in_sequence", <<>>))) = <<"T", "R", "U", "E">>

\* lines 177 and 192
status_not_pending(c) == Get(c, "outreach_status", <<"p", "e", "n", "d", "i", "n", "g">>) \notin { <<"p", "e", "n", "d", "i", "n", "g">>, <<>> }

\* lines 178 and 193
status_reason(c) == <<"s", "t", "a", "t", "u", "s", "_">> \o Str(Get(c, "outreach_status", None))

\* lines 169-179
is_ready_for_linkedin(c) ==
    IF Strip(Str(Get(c, "linkedin_url", <<>>))) = <<>> THEN Gate(FALSE, <<"n","o","_","l","i","n","k","e","d","i","n","_",
                                                                          "u","r","l">>)
    ELSE IF low_confidence(c) THEN Gate(FALSE, <<"l","o","w","_","c","o","n","f","i","d","e","n",
                                                 "c","e","_","p","e","r","s","o","n","a">>)
    ELSE IF already_in_sequence(c) THEN Gate(FALSE, <<"a","l","r","e","a","d","y","_","i","n","_","s",
                                                      "e","q","u","e","n","c","e">>)
    ELSE IF status_not_pending(c) THEN Gate(FALSE, status_reason(c))
    ELSE Gate(TRUE, <<>>)

\* lines 182-194
is_ready_for_email(c) ==
    IF Strip(Str(Get(c, "email", <<>>))) = <<>> THEN Gate(FALSE, <<"n", "o", "_", "e", "m", "a", "i", "l">>)
    ELSE IF Get(c, "icp_score", 0) < 3 THEN Gate(FALSE, <<"i","c","p","_","t","o","o","_","l","o","w">>)
    ELSE IF low_confidence(c) THEN Gate(FALSE, <<"l","o","w","_","c","o","n","f","i","d","e","n",
                                                 "c","e","_","p","e","r","s","o","n","a">>)
    ELSE IF already_in_sequence(c) THEN Gate(FALSE, <<"a","l","r","e","a","d","y","_","i","n","_","s",
                                                      "e","q","u","e","n","c","e">>)
    ELSE IF status_not_pending(c) THEN Gate(FALSE, status_reason(c))
    ELSE Gate(TRUE, <<>>)

\* lines 201-205
SENDER ==
    [l \in {"Leadership", "AE", "SDR"} |->
        CASE l = "Leadership" ->
               [name |-> <<"R","o","h","a","n"," ","M","e","h","t","a">>, title |-> <<"V","P"," ","o","f"," ","P","a","r","t","n","e",
                                                    "r","s","h","i","p","s">>,
                email |-> <<"r","o","h","a","n","@","c","o","m","p","a","n",
                            "y",".","c","o">>]
          [] l = "AE" ->
               [name |-> <<"S","n","e","h","a"," ","K","a","p","o","o","r">>, title |-> <<"A","c","c","o","u","n","t"," ","E","x","e","c",
                                                     "u","t","i","v","e">>,
                email |-> <<"s","n","e","h","a","@","c","o","m","p","a","n",
                            "y",".","c","o">>]
          [] l = "SDR" ->
               [name |-> <<"A","r","j","u","n"," ","S","h","a","r","m","a">>, title |-> <<"S","a","l","e","s"," ","D","e","v","e","l","o",
                                                     "p","m","e","n","t"," ","R","e","p">>,
                email |-> <<"a","r","j","u","n","@","c","o","m","p","a","n",
                            "y",".","c","o">>]]

\* the words of (Dr\.?|Mr\.?|Mrs\.?|Ms\.?|Prof\.?|Shri\.?), in the order tried
TitleWords == << <<"d", "r">>, <<"m", "r">>, <<"m", "r", "s">>, <<"m", "s">>, <<"p", "r", "o", "f">>, <<"s", "h", "r", "i">> >>

\* where the alternative that matches at the start of s ends, with its
\* optional dot, for the w-th word; 0 when it does not match
TitleEnd(s, w) ==
    IF ~MatchAt(s, 1, TitleWords[w]) THEN 0
    ELSE IF Len(s) > Len(TitleWords[w]) /\ s[Len(TitleWords[w]) + 1] = "."
         THEN Len(TitleWords[w]) + 1
         ELSE Len(TitleWords[w])

\* the first alternative, in order, that is followed by whitespace (a regex
\* backtracks over the optional dot and over the alternatives)
TitleMatch(s) ==
    {w \in 1..Len(TitleWords) :
        \/ /\ TitleEnd(s, w) > 0
           /\ TitleEnd(s, w) < Len(s)
           /\ IsSpace(s[TitleEnd(s, w) + 1])
        \/ /\ MatchAt(s, 1, TitleWords[w])
           /\ Len(TitleWords[w]) < Len(s)
           /\ IsSpace(s[Len(TitleWords[w]) + 1])}

\* where the match of alternative w ends before its whitespace
TitleCut(s, w) ==
    IF /\ TitleEnd(s, w) < Len(s)
       /\ IsSpace(s[TitleEnd(s, w) + 1])
    THEN TitleEnd(s, w)
    ELSE Len(TitleWords[w])

\* line 215: re.sub(r"^(Dr\.?|...)\s+", "", full_name, flags=re.IGNORECASE)
title_sub(full_name) ==
    IF TitleMatch(full_name) = {} THEN full_name
    ELSE SubSeq(full_name,
                SkipSpace(full_name, TitleCut(full_name, Min(TitleMatch(full_name))) + 1),
                Len(full_name))

\* lines 214-216: the first name, IndexError when nothing is left to split
first_name_of(c) ==
    IF Strip(title_sub(Str(Get(c, "name", <<>>)))) = <<>> THEN IndexError
    ELSE FirstWord(title_sub(Str(Get(c, "name", <<>>))))

\* text.split(ch)
RECURSIVE SplitOn(_, _)
SplitOn(text, ch) ==
    IF Find(text, ch) = 0 THEN <<text>>
    ELSE <<SubSeq(text, 1, Find(text, ch) - 1)>>
            \o SplitOn(SubSeq(text, Find(text, ch) + 1, Len(text)), ch)

\* lines 219-222: [t.strip() for t in themes_raw.split("|") if t.strip()]
themes_of(c) ==
    SelectSeq(Map(SplitOn(Str(Get(c, "personalization_themes", <<>>)), "|"), Strip),
              LAMBDA t : t # <<>>)

\* lines 225-226
sender_of(c) ==
    Get(SENDER,
        Get(Get(ROUTING_RULES, Get(c, "seniority_tier", "Manager/IC"), <<>>),
            "sender_level", "SDR"),
        SENDER["SDR"])

\* the dict extract_variables returns, keyed by the names the templates use
Variables(first_name, themes, sender, c) ==
    ( <<"f", "i", "r", "s", "t", "_", "n", "a", "m", "e">> :> first_name
      @@ <<"t", "h", "e", "i", "r", "_", "c", "o", "m", "p", "a", "n", "y">> :> Get(c, "company", <<"y","o","u","r"," ","c","o","m","p","a","n","y">>)
      @@ <<"p","e","r","s","o","n","a","l","i","z","a","t","i","o","n","_","1">> :>
            (IF Len(themes) > 0 THEN Lower(themes[1]) ELSE <<"d","a","t","a","-","d","r","i","v","e","n"," ",
                                                             "d","e","c","i","s","i","o","n"," ","m","a","k",
                                                             "i","n","g">>)
      @@ <<"p","e","r","s","o","n","a","l","i","z","a","t","i","o","n","_","2">> :>
            (IF Len(themes) > 1 THEN Lower(themes[2]) ELSE <<"c","o","m","p","e","t","i","t","i","v","e"," ",
                                                             "i","n","t","e","l","l","i","g","e","n","c","e">>)
      @@ <<"c", "o", "n", "t", "e", "x", "t", "_", "h", "o", "o", "k">> :> Strip(Str(Get(c, "context_hook", <<>>)))
      @@ <<"s", "e", "s", "s", "i", "o", "n", "_", "t", "o", "p", "i", "c">> :>
            (Str(Get(c, "industry_vertical", <<>>)) \o <<" ","s","t","r","a","t","e","g","y"," ","a","n",
                                                         "d"," ","s","c","a","l","i","n","g">>)
      @@ <<"s", "e", "n", "d", "e", "r", "_", "n", "a", "m", "e">> :> sender.name
      @@ <<"s", "e", "n", "d", "e", "r", "_", "t", "i", "t", "l", "e">> :> sender.title
      @@ <<"s", "e", "n", "d", "e", "r", "_", "e", "m", "a", "i", "l">> :> sender.email )

\* lines 208-238, for a contact whose name leaves a first name
extract_variables(c) ==
    Variables(first_name_of(c), themes_of(c), sender_of(c), c)

\* lines 241-251: template.format(**variables), a missing variable left empty
RECURSIVE safe_format(_, _)
safe_format(template, variables) ==
    IF Find(template, "{") = 0 THEN template
    ELSE SubSeq(template, 1, Find(template, "{") - 1)
            \o Str(Get(variables,
                       SubSeq(template, Find(template, "{") + 1,
                              Find(template, "}") - 1),
                       <<>>))
            \o safe_format(SubSeq(template, Find(template, "}") + 1, Len(template)),
                           variables)

\* lines 277-278: the 300 character limit of a connection note
limit_300(li_connect) ==
    IF Len(li_connect) > 300
    THEN SubSeq(li_connect, 1, 297) \o <<".", ".", ".">>
    ELSE li_connect

\* lines 273, 281, 285-286: the templates of a variant
Templates(variant) ==
    CASE variant = "A" ->
           [li |-> LI_CONNECT_A, dm |-> DM_A,
            subject |-> EMAIL_SUBJECT_A, body |-> EMAIL_BODY_A]
      [] variant = "B" ->
           [li |-> LI_CONNECT_B, dm |-> DM_B,
            subject |-> EMAIL_SUBJECT_B, body |-> EMAIL_BODY_B]
      [] variant = "C" ->
           [li |-> LI_CONNECT_C, dm |-> DM_C,
            subject |-> EMAIL_SUBJECT_C, body |-> EMAIL_BODY_C]

\* lines 273-300: the dict build_messages returns
Messages(variant, variables, li, em) ==
    [variant           |-> variant,
     li_connect_msg    |->
        IF li.ok THEN limit_300(safe_format(Templates(variant).li, variables))
        ELSE <<>>,
     during_event_dm   |->
        IF li.ok THEN safe_format(Templates(variant).dm, variables) ELSE <<>>,
     email_subject     |->
        IF em.ok THEN safe_format(Templates(variant).subject, variables) ELSE <<>>,
     email_body        |->
        IF em.ok THEN safe_format(Templates(variant).body, variables) ELSE <<>>,
     li_ready          |-> IF li.ok THEN "YES" ELSE "NO",
     email_ready       |-> IF em.ok THEN "YES" ELSE "NO",
     li_skip_reason    |-> li.reason,
     email_skip_reason |-> em.reason]

\* what build_messages returns, with the exception it raises instead
Built(messages, exception) == [messages |-> messages, raised |-> exception]

\* lines 258-300; the IndexError comes out of extract_variables
build_messages(c) ==
    IF first_name_of(c) = IndexError THEN Built(<<>>, "IndexError")
    ELSE Built(Messages(select_variant(c), extract_variables(c),
                        is_ready_for_linkedin(c), is_ready_for_email(c)),
               "")

\* the orders of n rows
Orders(n) ==
    {order \in [1..n -> 1..n] :
        \A j, k \in 1..n : j # k => order[j] # order[k]}

\* line 314: df.sort_values("icp_score", ascending=False), the frames it can
\* return: the sort is the default quicksort, which is not stable, so the
\* rows of one score come in any order
sort_by_icp_score(frame) ==
    {[k \in 1..Len(frame) |-> frame[order[k]]] :
        order \in {o \in Orders(Len(frame)) :
                      \A k \in 1..(Len(frame) - 1) :
                          frame[o[k]].icp_score >= frame[o[k + 1]].icp_score}}

\* lines 316-317: if limit: df = df.head(limit); limit None is 0 here
head(frame, limit) ==
    IF limit = 0 THEN frame ELSE SubSeq(frame, 1, Min({limit, Len(frame)}))

(***************************************************************************)
(* Inputs of validate_persona: raw LLM outputs and contacts.               *)
(***************************************************************************)
\* a raw output that is not JSON, with the message of json.loads for it
Raw(text, message) == [json |-> "text", text |-> text, value |-> <<>>, error |-> message]

\* a raw output that is the JSON text of a dict
RawObject(dict) == [json |-> "object", text |-> <<>>, value |-> dict, error |-> <<>>]

\* the LLM gave nothing
NoOutput == Raw(None, <<>>)

\* an empty answer
EmptyOutput ==
    Raw(<<>>,
        <<>>)

\* an answer of whitespace
BlankOutput ==
    Raw(<<" ", "\n">>,
        <<>>)

\* an answer without braces
ProseOutput ==
    Raw(<<"I"," ","c","a","n","n","o","t"," ","d","e","s","c","r","i","b",
          "e"," ","t","h","i","s"," ","c","o","n","t","a","c","t",".">>,
        <<>>)

\* the last } before the first {; json.loads says what the second text is
ClosedFirstOutput ==
    Raw(<<"}", " ", "p", "e", "r", "s", "o", "n", "a", " ", "{">>,
        <<"E","x","p","e","c","t","i","n","g"," ","v","a","l","u","e",":",
          " ","l","i","n","e"," ","1"," ","c","o","l","u","m","n"," ","1",
          " ","(","c","h","a","r"," ","0",")">>)

\* keys without quotes; json.loads says what the second text is
UnquotedOutput ==
    Raw(<<"H","e","r","e"," ","i","t"," ","i","s",":"," ","{","p","e","r",
          "s","o","n","a","_","s","u","m","m","a","r","y",":"," ","n","o",
          "n","e",","," ","}"," ","T","h","a","n","k","s">>,
        <<"E","x","p","e","c","t","i","n","g"," ","p","r","o","p","e","r",
          "t","y"," ","n","a","m","e"," ","e","n","c","l","o","s","e","d",
          " ","i","n"," ","d","o","u","b","l","e"," ","q","u","o","t","e",
          "s",":"," ","l","i","n","e"," ","1"," ","c","o","l","u","m","n",
          " ","2"," ","(","c","h","a","r"," ","1",")">>)

\* a fenced answer in single quotes; json.loads says what the second text is
FencedOutput ==
    Raw(<<Backquote,Backquote,Backquote,"j","s","o","n","\n","{","'","c",
          "o","n","f","i","d","e","n","c","e","'",":"," ","'","L","O","W",
          "'",",","}","\n",Backquote,Backquote,Backquote>>,
        <<"E","x","p","e","c","t","i","n","g"," ","p","r","o","p","e","r",
          "t","y"," ","n","a","m","e"," ","e","n","c","l","o","s","e","d",
          " ","i","n"," ","d","o","u","b","l","e"," ","q","u","o","t","e",
          "s",":"," ","l","i","n","e"," ","1"," ","c","o","l","u","m","n",
          " ","2"," ","(","c","h","a","r"," ","1",")">>)

\* a fenced answer that lacks a value; json.loads says what the second text is
BareFenceOutput ==
    Raw(<<Backquote,Backquote,Backquote,"{","\"","c","o","n","f","i","d",
          "e","n","c","e","\"",":"," ","}"," "," ",Backquote,Backquote,
          Backquote>>,
        <<"E","x","p","e","c","t","i","n","g"," ","v","a","l","u","e",":",
          " ","l","i","n","e"," ","1"," ","c","o","l","u","m","n"," ","1",
          "6"," ","(","c","h","a","r"," ","1","5",")">>)

TextOutputs == { NoOutput, EmptyOutput, BlankOutput, ProseOutput, ClosedFirstOutput, UnquotedOutput, FencedOutput, BareFenceOutput }

\* a key of a dict that may be left out
Given(value) == [present |-> TRUE, value |-> value]

Absent == [present |-> FALSE, value |-> <<>>]

\* the dict of the keys that are given
Dict(options) ==
    [key \in {n \in DOMAIN options : options[n].present} |-> options[key].value]

SpecificSummary ==
    <<"L","e","a","d","s"," ","R","a","z","o","r","p","a","y"," ","a","s"," ",
      "c","h","i","e","f"," ","e","x","e","c","u","t","i","v","e"," ","a","n",
      "d"," ","d","e","c","i","d","e","s"," ","o","n"," ","m","e","r","c","h",
      "a","n","t"," ","p","r","i","c","i","n","g",","," ","r","i","s","k"," ",
      "a","n","d"," ","e","x","p","a","n","s","i","o","n",".">>

UnspecificSummary ==
    <<"R","u","n","s"," ","a"," ","p","a","y","m","e","n","t","s"," ","b","u",
      "s","i","n","e","s","s"," ","a","n","d"," ","d","e","c","i","d","e","s",
      " ","o","n"," ","m","e","r","c","h","a","n","t"," ","p","r","i","c","i",
      "n","g",","," ","r","i","s","k"," ","a","n","d"," ","e","x","p","a","n",
      "s","i","o","n"," ","i","n"," ","A","s","i","a",".">>

GenericSummary ==
    <<"A"," ","v","i","s","i","o","n","a","r","y"," ","a","n","d"," ","s","e",
      "a","s","o","n","e","d"," ","p","r","o","f","e","s","s","i","o","n","a",
      "l"," ","w","h","o"," ","i","s"," ","p","a","s","s","i","o","n","a","t",
      "e"," ","a","b","o","u","t"," ","p","a","y","m","e","n","t","s"," ","a",
      "t"," ","R","a","z","o","r","p","a","y","."," "," "," "," ">>

ShortSummary == <<"L","e","a","d","s"," ","R","a","z","o","r","p","a","y",".">>

SummaryOptions ==
    { Given(SpecificSummary), Given(UnspecificSummary), Given(GenericSummary),
      Given(ShortSummary), Given(<<>>), Given(None), Given(Number(0)),
      Given(Number(5)), Absent }

HookOptions ==
    { Given(<<"R","a","z","o","r","p","a","y"," ","c","u","t"," ","i","t","s",
              " ","p","r","i","c","i","n","g"," ","f","o","r"," ","s","m","a",
              "l","l"," ","m","e","r","c","h","a","n","t","s"," ","i","n"," ",
              "t","h","r","e","e"," ","m","a","r","k","e","t","s",".">>),
      Given(<<" ","P","r","i","c","i","n","g"," ","m","a","t","t","e","r","s",
              "."," ">>), Given(JsonTrue), Absent }

\* the themes: lists of texts, a list with a number in it, an empty list, a
\* text where the list should be, null, or no key at all
ThemesOptions ==
    { Given(List(<< <<"m","e","r","c","h","a","n","t"," ","p","r","i","c","i",
                      "n","g"," ","s","t","r","a","t","e","g","y">>, <<" ","r","i","s","k"," ","a","n","d"," ","f","r",
                                                   "a","u","d"," ","c","o","n","t","r","o","l","s",
                                                   " ">> >>)),
      Given(List(<< <<"p", "r", "i", "c", "i", "n", "g">>, <<"r","i","s","k"," ","a","n","d"," ","f","r","a",
                                 "u","d"," ","c","o","n","t","r","o","l","s">> >>)),
      Given(List(<< <<"m","e","r","c","h","a","n","t"," ","p","r","i","c","i",
                      "n","g"," ","s","t","r","a","t","e","g","y">> >>)),
      Given(List(<< <<"m","e","r","c","h","a","n","t"," ","p","r","i","c","i",
                      "n","g"," ","s","t","r","a","t","e","g","y">>, Number(7) >>)),
      Given(List(<<>>)),
      Given(<<"m","e","r","c","h","a","n","t"," ","p","r","i","c","i","n","g",
              " ","s","t","r","a","t","e","g","y">>),
      Given(None),
      Absent }

ConfidenceOptions ==
    { Given(HIGH), Given(MEDIUM), Given(LOW), Given(<<"l", "o", "w">>),
      Given(None), Given(JsonFalse), Given(List(<<HIGH>>)), Absent }

ObjectOutputs ==
    { RawObject(Dict(<<"p","e","r","s","o","n","a","_","s","u","m","m","a",
                       "r","y">> :> s @@ <<"c","o","n","t","e","x","t","_","h","o","o","k">> :> h
                     @@ <<"p","e","r","s","o","n","a","l","i","z","a","t","i",
                          "o","n","_","t","h","e","m","e","s">> :> t @@ <<"c","o","n","f","i","d","e","n","c","e">> :> c)) :
        s \in SummaryOptions, h \in HookOptions, t \in ThemesOptions,
        c \in ConfidenceOptions }

LLMOutputs == TextOutputs \cup ObjectOutputs

Leads ==
    { [name |-> <<"H","a","r","s","h","i","l"," ","M","a","t","h","u","r">>, company |-> <<"R", "a", "z", "o", "r", "p", "a", "y">>,
       title |-> <<"C","h","i","e","f"," ","E","x","e","c","u","t","i","v",
                   "e"," ","O","f","f","i","c","e","r">>],
      [name |-> <<"A", "n", "i", "t", "a", " ", "R", "a", "n", "a">>, company |-> NaN, title |-> <<"H","e","a","d"," ","o","f"," ","t","h","e"," ",
                                                           "T","r","e","a","s","u","r","y">>],
      [name |-> <<"A", "n", "i", "t", "a", " ", "R", "a", "n", "a">>, title |-> <<"H","e","a","d"," ","o","f"," ","t","h","e"," ",
                                          "T","r","e","a","s","u","r","y">>],
      [name |-> <<"A", "n", "i", "t", "a", " ", "R", "a", "n", "a">>, company |-> JsonTrue,
       title |-> <<"C", "E", "O">>],
      [name |-> <<"A", "n", "i", "t", "a", " ", "R", "a", "n", "a">>, company |-> <<"R", "a", "z", "o", "r", "p", "a", "y">>,
       title |-> List(<< <<"C", "E", "O">> >>)] }

(***************************************************************************)
(* Inputs of build_all_messages: the rows of the master file as read_csv   *)
(* gives them (an empty cell is NaN, a boolean column prints True/False).  *)
(***************************************************************************)
MaxOutreachRows == 2     \* rows of a master file, and the largest limit

LinkedinUrl == <<"h","t","t","p","s",":","/","/","l","i","n","k","e","d","i",
                 "n",".","c","o","m","/","i","n","/","r","o","h","i","n","i">>
EmailAddress == <<"r","o","h","i","n","i","@","r","a","z","o","r","p","a","y",
                  ".","c","o","m">>

LongHook ==
    <<"R","a","z","o","r","p","a","y"," ","c","u","t"," ","i","t","s"," ","p",
      "r","i","c","i","n","g"," ","f","o","r"," ","s","m","a","l","l"," ","m",
      "e","r","c","h","a","n","t","s"," ","i","n"," ","t","h","r","e","e"," ",
      "m","a","r","k","e","t","s"," ","l","a","s","t"," ","q","u","a","r","t",
      "e","r"," ","a","n","d"," ","n","o","w"," ","p","l","a","n","s"," ","t",
      "o"," ","o","p","e","n"," ","t","w","o"," ","m","o","r","e","."," ">>

\* themes whose first makes a connection note of more than 300 characters
LongThemes ==
    <<"M","e","r","c","h","a","n","t"," ","P","r","i","c","i","n","g"," ","f",
      "o","r"," ","s","m","a","l","l"," ","a","n","d"," ","m","i","d","-","s",
      "i","z","e","d"," ","b","u","s","i","n","e","s","s","e","s"," ","t","h",
      "a","t"," ","s","e","l","l"," ","a","c","r","o","s","s"," ","s","e","v",
      "e","r","a","l"," ","S","o","u","t","h","e","a","s","t"," ","A","s","i",
      "a","n"," ","m","a","r","k","e","t","s"," ","a","n","d"," ","s","e","t",
      "t","l","e"," ","i","n"," ","r","u","p","e","e","s"," ","e","v","e","r",
      "y"," ","s","i","n","g","l","e"," ","w","o","r","k","i","n","g"," ","d",
      "a","y"," ","|"," "," ","|"," ","R","i","s","k"," ","C","o","n","t","r",
      "o","l","s">>

\* what decides the variant, the sender and the template variables
Profiles ==
    { [seniority_tier |-> "C-Suite", industry_vertical |-> <<"F", "i", "n", "t", "e", "c", "h">>,
       company |-> <<"R", "a", "z", "o", "r", "p", "a", "y">>, context_hook |-> LongHook,
       personalization_themes |-> LongThemes],
      [seniority_tier |-> "VP/Director", industry_vertical |-> <<"V", "C", "/", "P", "E">>,
       company |-> <<"A", "c", "c", "e", "l">>, context_hook |-> <<"A","c","c","e","l"," ","c","l","o","s","e","d",
                                               " ","a"," ","n","e","w"," ","I","n","d","i","a",
                                               " ","f","u","n","d",".">>,
       personalization_themes |-> <<"S","e","e","d"," ","D","e","a","l"," ","F","l",
                                    "o","w">>],
      [seniority_tier |-> "Manager/IC", industry_vertical |-> <<"F", "i", "n", "t", "e", "c", "h">>,
       company |-> NaN, context_hook |-> NaN, personalization_themes |-> NaN],
      [seniority_tier |-> OtherTier, industry_vertical |-> NaN,
       context_hook |-> <<"S","p","e","a","k","s"," ","o","n"," ","h","i","r",
                          "i","n","g",".">>, personalization_themes |-> <<" ", "|", " ">>] }

NameCells == { <<"D","r","."," ","R","o","h","i","n","i"," ","S","r","i","v",
                 "a","t","h","s","a">>, <<"m","r","s"," ","A","n","i","t","a"," "," ","R",
                                         "a","n","a">>, Blank }
LinkedinCells == { LinkedinUrl, NaN, Blank }
EmailCells == { EmailAddress, Blank }
IcpCells == { 2, 4 }
ConfidenceCells == { HIGH, MEDIUM, LOW, NaN }
InSequenceCells == { <<"F", "a", "l", "s", "e">>, <<"T", "r", "u", "e">> }
StatusCells == { Given(<<"p", "e", "n", "d", "i", "n", "g">>), Given(<<"s", "e", "n", "t">>), Given(NaN), Absent }

\* a row of the master file
MasterRow(name, linkedin_url, email, icp_score, confidence_flag, in_sequence,
          outreach_status, profile) ==
    Update(Update([name |-> name, linkedin_url |-> linkedin_url, email |-> email,
                   icp_score |-> icp_score, confidence_flag |-> confidence_flag,
                   in_sequence |-> in_sequence],
                  Dict([outreach_status |-> outreach_status])),
           profile)

MasterRows ==
    { MasterRow(n, l, e, s, f, q, o, p) :
        n \in NameCells, l \in LinkedinCells, e \in EmailCells, s \in IcpCells,
        f \in ConfidenceCells, q \in InSequenceCells, o \in StatusCells,
        p \in Profiles }

\* the rows the files of several rows are made of
ReadyProfile == CHOOSE p \in Profiles : p.seniority_tier = "C-Suite"

SomeRows ==
    { MasterRow(<<"D","r","."," ","R","o","h","i","n","i"," ","S","r","i","v",
                  "a","t","h","s","a">>, LinkedinUrl, EmailAddress, 4, HIGH,
                <<"F", "a", "l", "s", "e">>, Given(<<"p", "e", "n", "d", "i", "n", "g">>), ReadyProfile),
      MasterRow(<<"D","r","."," ","R","o","h","i","n","i"," ","S","r","i","v",
                  "a","t","h","s","a">>, LinkedinUrl, EmailAddress, 4, LOW,
                <<"F", "a", "l", "s", "e">>, Given(<<"p", "e", "n", "d", "i", "n", "g">>), ReadyProfile),
      MasterRow(<<"m","r","s"," ","A","n","i","t","a"," "," ","R","a","n","a">>, LinkedinUrl, EmailAddress, 2, MEDIUM,
                <<"F", "a", "l", "s", "e">>, Given(<<"p", "e", "n", "d", "i", "n", "g">>), ReadyProfile),
      MasterRow(<<"m","r","s"," ","A","n","i","t","a"," "," ","R","a","n","a">>, NaN, Blank, 4, HIGH,
                <<"T", "r", "u", "e">>, Given(<<"s", "e", "n", "t">>), ReadyProfile),
      MasterRow(Blank, LinkedinUrl, EmailAddress, 2, HIGH,
                <<"F", "a", "l", "s", "e">>, Given(<<"p", "e", "n", "d", "i", "n", "g">>), ReadyProfile) }

RECURSIVE FramesOf(_, _)
FramesOf(pool, n) ==
    IF n = 0 THEN { <<>> }
    ELSE { Append(f, r) : f \in FramesOf(pool, n - 1), r \in pool }

\* the files: one with a header only, the files of one row, and files of
\* several rows
MasterFiles ==
    { <<>> } \cup { <<r>> : r \in MasterRows }
    \cup UNION { FramesOf(SomeRows, n) : n \in 2..MaxOutreachRows }

(***************************************************************************)
(* validate_persona, called once on a raw output, and build_all_messages,  *)
(* called once on a master file.                                           *)
(***************************************************************************)
\* the file read and the file written
MasterInput == <<"d", "/", "m", ".", "c", "s", "v">>
OutreachOutput == <<"d", "/", "m", "o", ".", "c", "s", "v">>

BuildCalls ==
    [fn : {"build_all_messages"}, input_path : {MasterInput, MissingPath},
     output_path : {OutreachOutput, BarePath}]

\* lines 335-350: the columns _print_summary reads of every frame
ReadinessColumns ==
    {"li_ready", "email_ready", "variant", "li_skip_reason", "email_skip_reason"}

\* lines 352-364: the columns it reads of the sample row of a variant
SampleColumns ==
    {"name", "company", "seniority_tier", "industry_vertical", "icp_score",
     "li_connect_msg", "email_subject", "email_body"}

\* _print_summary raises KeyError: a column it reads of the frame is not
\* there, or a variant has a row ready for LinkedIn and a column read of the
\* sample row is not there
print_summary_raises(frame) ==
    \/ ~(ReadinessColumns \subseteq columns(frame))
    \/ /\ \E k \in 1..Len(frame) : frame[k].li_ready = "YES"
       /\ ~(SampleColumns \subseteq columns(frame))

InitOutreach ==
    /\ \/ /\ llm_output \in LLMOutputs
          /\ lead \in Leads
          /\ master = <<>>
          /\ head_limit = 0
          /\ opc = "persona"
          /\ MergeIdle
       \/ /\ llm_output = <<>>
          /\ lead = <<>>
          /\ master \in MasterFiles
          /\ head_limit \in 0..MaxOutreachRows
          /\ Len(master) <= 1 => head_limit = 0
          /\ opc = "call"
          /\ call \in BuildCalls
          /\ csv = [q \in {MasterInput} |-> master]
          /\ returned = <<>>
          /\ mraised = ""
          /\ mpc = "idle"
    /\ persona = <<>>
    /\ sorted_df = <<>>
    /\ built = <<>>
    /\ out_df = <<>>
    /\ oraised = ""
    /\ DedupIdle
    /\ NormIdle
    /\ RouterIdle
    /\ ApolloIdle

\* confidence_checker.py lines 200-259: validate_persona(llm_output, lead)
ValidatePersona ==
    /\ opc = "persona"
    /\ \E v \in {validate_persona(llm_output, lead)} :
          /\ persona' = v.result
          /\ oraised' = v.raised
    /\ opc' = "validated"
    /\ UNCHANGED <<llm_output, lead, master, head_limit, sorted_df, built, out_df>>
    /\ UNCHANGED <<dedup_vars, norm_vars, router_vars, merge_vars, apollo_vars>>

\* message_builder.py lines 314-317: the file is read, sorted and cut;
\* pd.read_csv raises when there is no file at input_path
LoadMaster ==
    /\ opc = "call"
    /\ IF call.input_path \in DOMAIN csv
       THEN /\ \E sorted_frame \in sort_by_icp_score(csv[call.input_path]) :
                  sorted_df' = head(sorted_frame, head_limit)
            /\ opc' = "loop"
            /\ oraised' = oraised
       ELSE /\ sorted_df' = sorted_df
            /\ opc' = "raised"
            /\ oraised' = "FileNotFoundError"
    /\ UNCHANGED <<llm_output, lead, persona, master, head_limit, built, out_df>>
    /\ UNCHANGED <<dedup_vars, norm_vars, router_vars, merge_vars, apollo_vars>>

\* lines 320-323: one turn of the loop over the rows
BuildRow ==
    /\ opc = "loop"
    /\ Len(built) < Len(sorted_df)
    /\ \E m \in {build_messages(sorted_df[Len(built) + 1])} :
          IF m.raised # ""
          THEN /\ oraised' = m.raised
               /\ opc' = "raised"
               /\ built' = built
          ELSE /\ built' = Append(built, Update(sorted_df[Len(built) + 1], m.messages))
               /\ UNCHANGED <<oraised, opc>>
    /\ UNCHANGED <<llm_output, lead, persona, master, head_limit, sorted_df, out_df>>
    /\ UNCHANGED <<dedup_vars, norm_vars, router_vars, merge_vars, apollo_vars>>

\* lines 325-331: the frame of the results is made; the directory of
\* output_path is made, which raises for a path without one; the frame is
\* written; _print_summary is called; the frame is returned
WriteOutreach ==
    /\ opc = "loop"
    /\ Len(built) = Len(sorted_df)
    /\ IF dirname(call.output_path) = <<>>
       THEN /\ oraised' = "FileNotFoundError"
            /\ opc' = "raised"
            /\ csv' = csv
            /\ out_df' = out_df
       ELSE /\ csv' = WriteCsv(csv, call.output_path, built)
            /\ IF print_summary_raises(built)
               THEN oraised' = "KeyError" /\ opc' = "raised" /\ out_df' = out_df
               ELSE oraised' = oraised /\ opc' = "done" /\ out_df' = built
    /\ UNCHANGED <<llm_output, lead, persona, master, head_limit, sorted_df, built>>
    /\ UNCHANGED <<call, returned, mraised, mpc>>
    /\ UNCHANGED <<dedup_vars, norm_vars, router_vars, apollo_vars>>

NextOutreach == ValidatePersona \/ LoadMaster \/ BuildRow \/ WriteOutreach

SpecOutreach == InitOutreach /\ [][NextOutreach]_vars

(***************************************************************************)
(* What the claims speak of                                                 *)
(***************************************************************************)
Done == pc = "done"

Ids(frame) == {frame[k].id : k \in 1..Len(frame)}

\* the rows of a frame with a given id
Having(frame, id) == {k \in 1..Len(frame) : frame[k].id = id}

\* identity key and company root of a returned row
KeyOf(row) == dedup_key(row)

RootOf(row) == normalize_company(row.company)

NameOf(row) == normalize_name(row.name)

FuzzyReasons == {"fuzzy_match_" \o ToString(n) \o "pct" : n \in 0..100}

\* the index in the input of the row with this id
InputIndex(id) == CHOOSE k \in 1..Len(df) : df[k].id = id

\* a demoted row whose reason is a fuzzy match
FuzzyDups == {n \in 1..Len(dups_df) : dups_df[n].dup_reason \in FuzzyReasons}

\* a demoted row whose reason is the exact match
ExactDups == {n \in 1..Len(dups_df) : dups_df[n].dup_reason = "exact_match"}

\* the measured similarity of name a to name b reaches the threshold
Similar(a, b) == AtLeast(similarity(a, b), fuzzy_threshold)

(***************************************************************************)
(* C1 -- conservation.  When find_duplicates returns, under either merge    *)
(* strategy, the clean and the duplicates frame together have as many rows  *)
(* as the input, and every input row is in exactly one of them, once.       *)
(***************************************************************************)
C1_Conservation ==
    Done =>
        /\ Len(clean_df) + Len(dups_df) = Len(df)
        /\ \A k \in 1..Len(df) :
              Cardinality(Having(clean_df, df[k].id))
                + Cardinality(Having(dups_df, df[k].id)) = 1

\* a run under keep_highest_icp that kept one row and demoted a later row
\* with the same key and a higher score, and one more row
C1_Witness ==
    /\ Done
    /\ strategy = "keep_highest_icp"
    /\ Len(df) = 3
    /\ Len(clean_df) >= 1
    /\ \E n \in ExactDups :
          dups_df[n].icp_score > df[InputIndex(dups_df[n].kept_id)].icp_score

(***************************************************************************)
(* C2 -- one record per identity in the clean frame.  When find_duplicates  *)
(* returns, no two clean rows have the same identity key, no two clean rows *)
(* with the same company root have names whose similarity reaches the       *)
(* threshold, and every row with the key of an earlier kept row, or a name  *)
(* similar to that of an earlier kept row with its company root, is among   *)
(* the duplicates.                                                          *)
(***************************************************************************)
C2_OnePerIdentity ==
    Done =>
        /\ \A m, n \in 1..Len(clean_df) :
              m # n => KeyOf(clean_df[m]) # KeyOf(clean_df[n])
        /\ \A m, n \in 1..Len(clean_df) :
              (m # n /\ RootOf(clean_df[m]) = RootOf(clean_df[n]))
                 => ~Similar(NameOf(clean_df[m]), NameOf(clean_df[n]))
        /\ \A k \in 1..Len(df) : \A j \in 1..(k - 1) :
              ( /\ df[j].id \in Ids(clean_df)
                /\ \/ KeyOf(df[j]) = KeyOf(df[k])
                   \/ /\ RootOf(df[j]) = RootOf(df[k])
                      /\ Similar(NameOf(df[k]), NameOf(df[j])) )
                 => df[k].id \in Ids(dups_df)

(***************************************************************************)
(* The part of C2 the loop does establish: a kept row's name, measured      *)
(* against the name of every row kept before it with the same company root  *)
(* (the later name first, as line 131 passes them), stays under the         *)
(* threshold.                                                               *)
(***************************************************************************)
LaterNotSimilarToEarlier ==
    Done =>
        \A m, n \in 1..Len(clean_df) :
            (m < n /\ RootOf(clean_df[m]) = RootOf(clean_df[n]))
               => ~Similar(NameOf(clean_df[n]), NameOf(clean_df[m]))

(***************************************************************************)
(* C3 -- kept_id names a survivor.  When find_duplicates returns, every row *)
(* of the duplicates frame has a dup_reason and a kept_id, and the kept_id  *)
(* is the id of a row of the clean frame, not of a demoted row.             *)
(***************************************************************************)
C3_KeptIdSurvives ==
    Done =>
        \A n \in 1..Len(dups_df) :
            /\ {"dup_reason", "kept_id"} \subseteq DOMAIN dups_df[n]
            /\ dups_df[n].dup_reason
                  \in {"exact_match", "replaced_by_higher_icp"} \cup FuzzyReasons
            /\ dups_df[n].kept_id \in Ids(clean_df)
            /\ dups_df[n].kept_id \notin Ids(dups_df)

\* a run that demoted one row for its key and one for its name
C3_Witness ==
    /\ Done
    /\ ExactDups # {}
    /\ FuzzyDups # {}

(***************************************************************************)
(* C4 -- keep_highest_icp.  Under keep_highest_icp, when find_duplicates    *)
(* returns, the clean row of an identity key has the highest icp_score of   *)
(* the input rows with that key, and an earlier row of that key with a      *)
(* lower score is among the duplicates as replaced_by_higher_icp, its       *)
(* kept_id the id of the row that replaced it.                              *)
(***************************************************************************)
C4_HighestIcpKept ==
    (Done /\ strategy = "keep_highest_icp") =>
        \A m \in 1..Len(clean_df) : \A k \in 1..Len(df) :
            KeyOf(df[k]) = KeyOf(clean_df[m]) =>
               /\ clean_df[m].icp_score >= df[k].icp_score
               /\ (k < InputIndex(clean_df[m].id)
                   /\ df[k].icp_score < clean_df[m].icp_score)
                     => \E n \in 1..Len(dups_df) :
                           /\ dups_df[n].id = df[k].id
                           /\ dups_df[n].dup_reason = "replaced_by_higher_icp"
                           /\ dups_df[n].kept_id
                                 \in {df[x].id : x \in (k + 1)..Len(df)}

(***************************************************************************)
(* C5 -- scenario A.  The batch ("Dr. Rohini Srivathsa", "Microsoft India") *)
(* then ("Rohini Srivathsa", "Microsoft"), threshold 85: the first row is   *)
(* kept, the second is the one duplicate, its kept_id the first row's id.   *)
(* As claimed its dup_reason is fuzzy_match_100pct; as amended it is        *)
(* exact_match, the two rows having the same identity key.                  *)
(***************************************************************************)
ScenarioA ==
    /\ Len(df) = 2
    /\ df[1].name = DrRohiniSrivathsa /\ df[1].company = MicrosoftIndia
    /\ df[2].name = RohiniSrivathsa /\ df[2].company = Microsoft
    /\ fuzzy_threshold = 85

ScenarioA_Outcome(reason) ==
    /\ clean_df = <<DropKey(df[1])>>
    /\ Len(dups_df) = 1
    /\ dups_df[1].id = df[2].id
    /\ dups_df[1].dup_reason = reason
    /\ dups_df[1].kept_id = df[1].id

C5_ScenarioA_Fuzzy == (Done /\ ScenarioA) => ScenarioA_Outcome("fuzzy_match_100pct")

C5_ScenarioA_Exact == (Done /\ ScenarioA) => ScenarioA_Outcome("exact_match")

\* find_duplicates has returned on the batch of scenario A
C5_Witness == Done /\ ScenarioA /\ KeyOf(df[1]) = KeyOf(df[2])

(***************************************************************************)
(* C6 -- exact duplicates.  When find_duplicates returns, every row whose   *)
(* identity key is that of a row kept before it is among the duplicates     *)
(* with dup_reason exact_match and that row's id as kept_id, and with no    *)
(* fuzzy reason; so it is for "Razorpay India Pvt Ltd" and "Razorpay".      *)
(***************************************************************************)
C6_ExactMatch ==
    Done =>
        \A k \in 1..Len(df) : \A j \in 1..(k - 1) :
            (df[j].id \in Ids(clean_df) /\ KeyOf(df[j]) = KeyOf(df[k]))
               => /\ \E n \in Having(dups_df, df[k].id) :
                        /\ dups_df[n].dup_reason = "exact_match"
                        /\ dups_df[n].kept_id = df[j].id
                  /\ \A n \in Having(dups_df, df[k].id) : n \notin FuzzyDups

\* scenario B: the same name at "Razorpay India Pvt Ltd" and then at "Razorpay"
C6_Witness ==
    /\ Done
    /\ Len(df) >= 2
    /\ df[1].company = RazorpayIndiaPvtLtd
    /\ df[2].company = Razorpay
    /\ NameOf(df[1]) = NameOf(df[2])
    /\ RootOf(df[1]) = <<"r","a","z","o","r","p","a","y">>
    /\ RootOf(df[2]) = <<"r","a","z","o","r","p","a","y">>
    /\ \E n \in ExactDups : dups_df[n].id = df[2].id

(***************************************************************************)
(* C7 -- fuzzy matches stay within a company root.  When find_duplicates    *)
(* returns, the row a fuzzy duplicate's kept_id names has the duplicate's   *)
(* company root.                                                            *)
(***************************************************************************)
C7_FuzzySameRoot ==
    Done =>
        \A n \in FuzzyDups :
            /\ dups_df[n].kept_id \in Ids(df)
            /\ RootOf(df[InputIndex(dups_df[n].kept_id)]) = RootOf(dups_df[n])

\* a fuzzy duplicate, and a kept row with a similar name at another root
C7_Witness ==
    /\ Done
    /\ \E n \in FuzzyDups : \E m \in 1..Len(clean_df) :
          /\ RootOf(clean_df[m]) # RootOf(dups_df[n])
          /\ InputIndex(clean_df[m].id) < InputIndex(dups_df[n].id)
          /\ Similar(NameOf(dups_df[n]), NameOf(clean_df[m]))

(***************************************************************************)
(* C8 -- the clean frame is a subsequence of the input.  When               *)
(* find_duplicates returns, under either strategy, the clean rows are input *)
(* rows and stand in the order they have in the input.                      *)
(***************************************************************************)
C8_CleanInInputOrder ==
    Done =>
        /\ \A m \in 1..Len(clean_df) :
              /\ clean_df[m].id \in Ids(df)
              /\ clean_df[m] = DropKey(df[InputIndex(clean_df[m].id)])
        /\ \A m, n \in 1..Len(clean_df) :
              m < n => InputIndex(clean_df[m].id) < InputIndex(clean_df[n].id)

\* two kept rows with a demoted row between them in the input
C8_Witness ==
    /\ Done
    /\ Len(clean_df) >= 2
    /\ \E n \in 1..Len(dups_df) :
          /\ InputIndex(clean_df[1].id) < InputIndex(dups_df[n].id)
          /\ InputIndex(dups_df[n].id) < InputIndex(clean_df[2].id)

(***************************************************************************)
(* C9 -- idempotence.  Normalising a normalised name gives the same name,   *)
(* and normalising a normalised company gives the same company root, for    *)
(* every cell, "Dr. Mr. X" among them.                                      *)
(***************************************************************************)
C9_Idempotent ==
    /\ npc = "name_again" => twice = once
    /\ npc = "company_again" => twice = once

(***************************************************************************)
(* C10 -- empty and null cells.  An empty or null name normalises to the    *)
(* empty text and an empty or null company to the empty company root; and   *)
(* when find_duplicates returns, a duplicate whose company root is empty    *)
(* was matched to a kept row whose company root is empty.                   *)
(***************************************************************************)
EmptyCells == {<<>>, None, NaN}

C10_EmptyCells ==
    Done =>
        /\ \A k \in 1..Len(df) :
              /\ df[k].name \in EmptyCells => NameOf(df[k]) = <<>>
              /\ df[k].company \in EmptyCells => RootOf(df[k]) = <<>>
        /\ \A n \in 1..Len(dups_df) :
              RootOf(dups_df[n]) = <<>>
                 => RootOf(df[InputIndex(dups_df[n].kept_id)]) = <<>>

(***************************************************************************)
(* What the router's claims speak of                                        *)
(***************************************************************************)
\* a route() call has just been made, and it returned
Returned == calls > 0 /\ raised = ""

\* a step of the model is a route() call
Called == calls' = calls + 1

\* ... that returned an assignment
AssignedNow == Called /\ raised' = "" /\ result'.routing_status = "assigned"

\* every member of the roster
Roster == UNION {{team[r][k] : k \in 1..Len(team[r])} : r \in DOMAIN team}

\* the pool the latest assignment was made from, before and after the call
PoolBefore == team[result'.owner_role]

\* the members of a pool that are under capacity, by position in the pool
UnderCapacity(pool, ac) ==
    {k \in 1..Len(pool) : Count(ac, pool[k].name) < pool[k].capacity}

\* the position in its pool of the owner just returned
OwnerPos(pool) == CHOOSE k \in 1..Len(pool) : pool[k].name = result'.owner_name

(***************************************************************************)
(* C11: during one LeadRouter run company_owner is only ever extended: a    *)
(* company root that has an owner keeps that owner through every later      *)
(* route() call.                                                            *)
(***************************************************************************)
C11_Step ==
    \A r \in DOMAIN company_owner :
        r \in DOMAIN company_owner' /\ company_owner'[r] = company_owner[r]

C11_OwnerOnlyExtended == [][C11_Step]_vars

\* two roots have owners, and the latest contact was of an owned company
C11_Witness ==
    /\ Returned
    /\ result.routing_status = "skip_company_conflict"
    /\ Cardinality(DOMAIN company_owner) >= 2

(***************************************************************************)
(* C12: an owner's assignment_count is above the owner's capacity only if   *)
(* an assignment to that owner was returned with capacity_overflow = True,  *)
(* and the assignment that leaves an owner above capacity is so flagged.    *)
(***************************************************************************)
C12_CapacityRespected ==
    /\ \A m \in Roster :
          Count(assignment_count, m.name) > m.capacity => m.name \in flagged
    /\ (Returned /\ result.routing_status = "assigned") =>
          \A m \in Roster :
             (m.name = result.owner_name
                 /\ Count(assignment_count, m.name) > m.capacity)
             => result.capacity_overflow = TRUE

\* some owner is above capacity
C12_Witness ==
    \E m \in Roster : Count(assignment_count, m.name) > m.capacity

(***************************************************************************)
(* C13: assign_owner returns capacity_overflow = True exactly when every    *)
(* member of the pool is at or above capacity when it is called; the owner  *)
(* is then the first member of the pool; and a contact that passes both     *)
(* gates always gets an owner.                                              *)
(***************************************************************************)
C13_Step ==
    /\ AssignedNow =>
          LET pool == PoolBefore
              full == UnderCapacity(pool, assignment_count) = {}
          IN  /\ result'.capacity_overflow = full
              /\ full => result'.owner_name = pool[1].name
              /\ \E k \in 1..Len(pool) : pool[k].name = result'.owner_name
    /\ (/\ Called
        /\ contact_id(routed') \notin sequence_ids
        /\ company_root(routed') # IndexError
        /\ company_root(routed') \notin DOMAIN company_owner)
       => AssignedNow

C13_OverflowIffPoolFull == [][C13_Step]_vars

\* an assignment was returned with capacity_overflow = True
C13_Witness ==
    /\ Returned
    /\ result.routing_status = "assigned"
    /\ result.capacity_overflow = TRUE

(***************************************************************************)
(* C14: when a member of the pool is under capacity, assign_owner takes a   *)
(* member under capacity with the least count, the earliest in the roster   *)
(* among those; that member's count goes up by one and no other count       *)
(* changes.                                                                 *)
(***************************************************************************)
C14_Step ==
    AssignedNow =>
       LET pool == PoolBefore
           free == UnderCapacity(pool, assignment_count)
           pos  == OwnerPos(pool)
           cnt(k) == Count(assignment_count, pool[k].name)
       IN  /\ free # {} =>
                /\ pos \in free
                /\ \A k \in free : cnt(pos) <= cnt(k)
                /\ \A k \in free : cnt(k) = cnt(pos) => pos <= k
           /\ \A m \in Roster :
                Count(assignment_count', m.name) =
                   Count(assignment_count, m.name)
                      + (IF m.name = result'.owner_name THEN 1 ELSE 0)

C14_LeastLoadedStable == [][C14_Step]_vars

\* the owner returned is the second of a pool whose first member has at
\* least as many assignments, and is neither the only member under capacity
\* nor an overflow
C14_Witness ==
    /\ Returned
    /\ result.routing_status = "assigned"
    /\ ~result.capacity_overflow
    /\ LET pool == team[result.owner_role]
       IN  /\ result.owner_name = pool[2].name
           /\ Count(assignment_count, pool[1].name) < pool[1].capacity
           /\ Count(assignment_count, pool[1].name)
                 >= Count(assignment_count, pool[2].name)

(***************************************************************************)
(* C15: a contact whose id is in the active-sequence set gets               *)
(* skip_in_sequence and no owner, whatever its company, and the router is   *)
(* left as it was; an id is put into the set only when it is not there,     *)
(* together with its assignment, so no id is assigned an owner twice.       *)
(***************************************************************************)
C15_Step ==
    /\ (Called /\ contact_id(routed') \in sequence_ids) =>
          /\ raised' = ""
          /\ result'.routing_status = "skip_in_sequence"
          /\ result'.owner_name = ""
          /\ UNCHANGED <<assignment_count, company_owner, sequence_ids>>
    /\ AssignedNow =>
          /\ contact_id(routed') \notin sequence_ids
          /\ sequence_ids' = sequence_ids \cup {contact_id(routed')}
    /\ (Called /\ ~AssignedNow) => sequence_ids' = sequence_ids

C15_SequenceGateFirst == [][C15_Step]_vars

\* a contact in a sequence was skipped although its company has an owner,
\* or has no first word
C15_Witness ==
    /\ Returned
    /\ result.routing_status = "skip_in_sequence"
    /\ \/ company_root(routed) = IndexError
       \/ company_root(routed) \in DOMAIN company_owner

(***************************************************************************)
(* What the claims about route_all speak of                                 *)
(***************************************************************************)
RouteAllDone == rpc = "done"

\* every contact of the list has been given to route(), by a run or by
\* route_all
RunOver == (rpc = "run" /\ calls = Len(rows)) \/ RouteAllDone

RoutingStatuses == {"assigned", "skip_in_sequence", "skip_company_conflict"}

\* the rows routed so far with a given status
WithStatus(status) ==
    {k \in 1..Len(results) : results[k].routing_status = status}

RECURSIVE SumOver(_, _)
SumOver(f, S) ==
    IF S = {} THEN 0
    ELSE LET x == CHOOSE x \in S : TRUE IN f[x] + SumOver(f, S \ {x})

\* all assignments counted by the router
TotalAssigned == SumOver(assignment_count, DOMAIN assignment_count)

\* the pool that owns a tier, and the capacity of a pool
PoolFor(tier) ==
    team[Get(Get(ROUTING_RULES, tier, <<>>), "owner_role", "SDR")]

TotalCapacity(pool) ==
    SumOver([k \in 1..Len(pool) |-> pool[k].capacity], 1..Len(pool))

(***************************************************************************)
(* C16: of the contacts of one run that share a company root, the first is  *)
(* assigned and every later one is returned with skip_company_conflict and  *)
(* the first one's owner as owner_name, without any count going up for it;  *)
(* so it is for "Razorpay" and "Razorpay Software Pvt Ltd".                 *)
(***************************************************************************)
C16_CompanyConflict ==
    /\ \A k \in 1..Len(results) :
          LET earlier == {j \in 1..(k - 1) :
                             company_root(results[j]) = company_root(results[k])}
          IN  IF earlier = {}
              THEN results[k].routing_status = "assigned"
              ELSE /\ results[k].routing_status = "skip_company_conflict"
                   /\ results[k].owner_name = results[Min(earlier)].owner_name
    /\ TotalAssigned = Cardinality(WithStatus("assigned"))
    /\ \A j, k \in 1..Len(results) :
          (j < k /\ {results[j].company, results[k].company}
                       = {Razorpay, RazorpaySoftwarePvtLtd})
          => /\ results[k].routing_status = "skip_company_conflict"
             /\ results[k].owner_name = results[j].owner_name

\* scenario D has been routed
C16_Witness ==
    /\ RouteAllDone
    /\ Len(results) = 2
    /\ results[1].company = Razorpay
    /\ results[1].routing_status = "assigned"
    /\ results[2].company = RazorpaySoftwarePvtLtd
    /\ results[2].owner_name = results[1].owner_name

(***************************************************************************)
(* C17: the company root the router uses for a contact is the               *)
(* deduplicator's company root of the same company.                         *)
(***************************************************************************)
C17_SameRootAsDeduplicator ==
    (calls > 0 /\ company_root(routed) # IndexError)
    => company_root(routed) = normalize_company(routed.company)

(***************************************************************************)
(* C18: routing a contact whose company is empty or only whitespace does    *)
(* not raise and does not end the run: route() returns one of the three     *)
(* routing statuses for it.                                                 *)
(***************************************************************************)
C18_BlankCompanyRouted ==
    (calls > 0 /\ Strip(Str(routed.company)) = <<>>)
    => /\ raised = ""
       /\ rpc # "raised"
       /\ result.routing_status \in RoutingStatuses

(***************************************************************************)
(* C19: route_all routes the contacts by descending icp_score and, for      *)
(* equal scores, by ascending seniority rank: C-Suite, then VP/Director,    *)
(* then Manager/IC.                                                         *)
(***************************************************************************)
TierRank ==
    [t \in Tiers |-> CASE t = "C-Suite" -> 1
                       [] t = "VP/Director" -> 2
                       [] t = "Manager/IC" -> 3]

C19_PriorityOrder ==
    \A j, k \in 1..Len(rows) :
        (j < k /\ {rows[j].seniority_tier, rows[k].seniority_tier} \subseteq Tiers) =>
           \/ rows[j].icp_score > rows[k].icp_score
           \/ /\ rows[j].icp_score = rows[k].icp_score
              /\ TierRank[rows[j].seniority_tier] <= TierRank[rows[k].seniority_tier]

(***************************************************************************)
(* C20: when n contacts of one tier, each of a company root of its own,     *)
(* meet a pool of total capacity m < n, the first m are assigned without    *)
(* overflow and fill every member to capacity, and each of the others goes  *)
(* to the first member of the pool with capacity_overflow = True.  Of five  *)
(* C-Suite contacts of score 5 and two senior AEs of capacity 1, the first  *)
(* two get different senior AEs, the third to fifth the same member with    *)
(* capacity_overflow = True, and all five leadership_review = YES.          *)
(***************************************************************************)
SingleTier ==
    /\ Len(rows) >= 1
    /\ \A k \in 1..Len(rows) : rows[k].seniority_tier = rows[1].seniority_tier

DistinctRoots ==
    \A j, k \in 1..Len(rows) :
        /\ company_root(rows[j]) # IndexError
        /\ j # k => company_root(rows[j]) # company_root(rows[k])

ScenarioC ==
    /\ Len(rows) = 5
    /\ DistinctRoots
    /\ \A k \in 1..5 : /\ rows[k].seniority_tier = "C-Suite"
                       /\ rows[k].icp_score = 5
    /\ \A p \in 1..Len(team["Senior AE"]) : team["Senior AE"][p].capacity = 1

C20_OverflowAfterCapacity ==
    /\ (RunOver /\ SingleTier /\ DistinctRoots) =>
          LET pool == PoolFor(rows[1].seniority_tier)
              m == TotalCapacity(pool)
              n == Len(results)
          IN  (n = Len(rows) /\ n > m) =>
                /\ \A k \in 1..m :
                      /\ results[k].routing_status = "assigned"
                      /\ results[k].capacity_overflow = FALSE
                /\ \A p \in 1..Len(pool) :
                      Cardinality({k \in 1..m :
                                      results[k].owner_name = pool[p].name})
                         = pool[p].capacity
                /\ \A k \in (m + 1)..n :
                      /\ results[k].routing_status = "assigned"
                      /\ results[k].owner_name = pool[1].name
                      /\ results[k].capacity_overflow = TRUE
    /\ (RunOver /\ ScenarioC) =>
          /\ Len(results) = 5
          /\ results[1].owner_role = "Senior AE"
          /\ results[2].owner_role = "Senior AE"
          /\ results[1].owner_name # results[2].owner_name
          /\ \A k \in 1..2 : results[k].capacity_overflow = FALSE
          /\ \A k \in 3..5 : /\ results[k].capacity_overflow = TRUE
                             /\ results[k].owner_name = results[3].owner_name
          /\ \A k \in 1..5 : results[k].leadership_review = "YES"

\* scenario C has been routed
C20_Witness == RunOver /\ ScenarioC /\ Len(results) = 5

(***************************************************************************)
(* C21: a contact that passes both gates gets leadership_review = YES       *)
(* exactly when its icp_score is at least 5 and its tier is C-Suite; the    *)
(* flag changes nothing else: the contact is assigned, with the owner and   *)
(* the sender that the same contact with a lower score gets.                *)
(***************************************************************************)
OwnerAndSender ==
    {"owner_name", "owner_email", "owner_role", "sender_name", "sender_title",
     "sender_email", "routing_status", "capacity_overflow"}

C21_Step ==
    AssignedNow =>
       /\ result'.leadership_review =
             (IF routed'.icp_score >= 5 /\ routed'.seniority_tier = "C-Suite"
              THEN "YES" ELSE "NO")
       /\ LET plain == route(Router(team, assignment_count, company_owner,
                                    sequence_ids),
                             [routed' EXCEPT !.icp_score = 4])
          IN  /\ plain.raised = ""
              /\ \A f \in OwnerAndSender : plain.result[f] = result'[f]
              /\ plain.self = Router(team, assignment_count', company_owner',
                                     sequence_ids')

C21_LeadershipReviewAdvisory == [][C21_Step]_vars

\* a C-Suite contact of score 5 has been assigned and flagged
C21_Witness ==
    /\ Returned
    /\ routed.seniority_tier = "C-Suite"
    /\ routed.icp_score = 5
    /\ result.routing_status = "assigned"
    /\ result.leadership_review = "YES"

(***************************************************************************)
(* C22: a route() call that returns one of the two skip statuses leaves     *)
(* company_owner, sequence_ids and every assignment_count as they were; a   *)
(* call that returns assigned adds the contact's company root with the      *)
(* owner returned, and the contact's id, and nothing else.                  *)
(***************************************************************************)
C22_Step ==
    /\ (/\ Called
        /\ raised' = ""
        /\ result'.routing_status \in {"skip_in_sequence", "skip_company_conflict"})
       => /\ company_owner' = company_owner
          /\ sequence_ids' = sequence_ids
          /\ \A m \in Roster :
                Count(assignment_count', m.name) = Count(assignment_count, m.name)
    /\ AssignedNow =>
          LET root == company_root(routed')
          IN  /\ root \notin DOMAIN company_owner
              /\ DOMAIN company_owner' = (DOMAIN company_owner) \cup {root}
              /\ company_owner'[root] = result'.owner_name
              /\ \A r \in DOMAIN company_owner : company_owner'[r] = company_owner[r]
              /\ contact_id(routed') \notin sequence_ids
              /\ sequence_ids' = sequence_ids \cup {contact_id(routed')}

C22_CommitOnlyOnAssignment == [][C22_Step]_vars

\* two contacts are in a sequence and the latest call was a skip
C22_Witness ==
    /\ Returned
    /\ result.routing_status \in {"skip_in_sequence", "skip_company_conflict"}
    /\ Cardinality(sequence_ids) >= 2
    /\ Cardinality(DOMAIN company_owner) >= 2

(***************************************************************************)
(* C23: when route_all is over, every contact of the file has been given    *)
(* one of the three statuses, by one route() call each.                     *)
(***************************************************************************)
C23_EveryContactDecidedOnce ==
    rpc \in {"done", "raised"} =>
       /\ Len(results) = Len(rows)
       /\ calls = Len(rows)
       /\ \A k \in 1..Len(rows) :
             /\ results[k].id = rows[k].id
             /\ results[k].routing_status \in RoutingStatuses

\* what holds of the rows for which route() returned: each was routed by
\* one call, in the order of the sorted file
RoutedOncePerRow ==
    /\ Len(results) <= Len(rows)
    /\ calls = Len(results) + (IF raised = "IndexError" THEN 1 ELSE 0)
    /\ \A k \in 1..Len(results) :
          /\ results[k].id = rows[k].id
          /\ results[k].routing_status \in RoutingStatuses

(***************************************************************************)
(* C24: the owner of an assigned contact is a member of the pool of the     *)
(* contact's tier: Senior AE for C-Suite, AE for VP/Director, SDR for       *)
(* Manager/IC, and SDR for a tier the routing table does not have.          *)
(***************************************************************************)
ExpectedRole(tier) ==
    CASE tier = "C-Suite" -> "Senior AE"
      [] tier = "VP/Director" -> "AE"
      [] OTHER -> "SDR"

C24_OwnerFromTierPool ==
    \A k \in WithStatus("assigned") :
        LET role == ExpectedRole(results[k].seniority_tier)
        IN  /\ results[k].owner_role = role
            /\ \E p \in 1..Len(team[role]) :
                  team[role][p].name = results[k].owner_name

\* a contact of an unknown tier has been assigned
C24_Witness ==
    \E k \in WithStatus("assigned") :
        /\ results[k].seniority_tier = OtherTier
        /\ results[k].owner_role = "SDR"

(***************************************************************************)
(* C28: a contact with a new id whose company root has an owner is          *)
(* returned with skip_company_conflict, also when assign_owner would give   *)
(* it that same owner; so a contact is assigned only when its root has no   *)
(* owner, and a root gets at most one assigned contact.                     *)
(***************************************************************************)
C28_Step ==
    /\ (/\ Called
        /\ contact_id(routed') \notin sequence_ids
        /\ company_root(routed') \in DOMAIN company_owner)
       => /\ raised' = ""
          /\ result'.routing_status = "skip_company_conflict"
          /\ result'.owner_name = company_owner[company_root(routed')]
    /\ AssignedNow => company_root(routed') \notin DOMAIN company_owner

C28_OneAssignedPerRoot == [][C28_Step]_vars

\* a contact was skipped for its company although assign_owner would have
\* given it the owner the company has
C28_Witness ==
    /\ Returned
    /\ result.routing_status = "skip_company_conflict"
    /\ assign_owner(Router(team, assignment_count, company_owner, sequence_ids),
                    routed.seniority_tier).assignment.owner_name
          = result.owner_name

(***************************************************************************)
(* C29: the assignment counts add up to the number of contacts returned as  *)
(* assigned, which is the size of sequence_ids when the ids are distinct;   *)
(* and only the first member of a pool is ever above its capacity.          *)
(***************************************************************************)
C29_CountsAddUp ==
    /\ TotalAssigned = Cardinality(WithStatus("assigned"))
    /\ Cardinality(sequence_ids) = Cardinality(WithStatus("assigned"))
    /\ \A r \in DOMAIN team :
          \A p \in 2..Len(team[r]) :
             Count(assignment_count, team[r][p].name) <= team[r][p].capacity

\* the run is over and the first member of a pool is above its capacity
C29_Witness ==
    /\ RunOver
    /\ \E r \in DOMAIN team :
          Count(assignment_count, team[r][1].name) > team[r][1].capacity

(***************************************************************************)
(* C27: merge_and_dedup returns the deduplication of list A followed by     *)
(* list B, list B's ids shifted by the largest id of list A.                *)
(***************************************************************************)
C27_MergeAndDedup ==
    (mpc = "done" /\ call.fn = "merge_and_dedup") =>
       /\ mraised = ""
       /\ returned =
             find_duplicates(merged_frame(csv[call.list_a_path],
                                          csv[call.list_b_path]),
                             strategy).clean_df

\* what holds instead: the call raises and writes nothing; with two
\* readable lists that have ids the exception is the ValueError of
\* pd.read_csv(None)
MergeAndDedupRaises ==
    (mpc = "done" /\ call.fn = "merge_and_dedup") =>
       /\ mraised =
             (IF call.list_b_path \notin DOMAIN csv THEN "FileNotFoundError"
              ELSE IF ~has_column(csv[call.list_b_path], "id") THEN "KeyError"
              ELSE "ValueError")
       /\ returned = <<>>
       /\ DOMAIN csv = {ListAPath, ListBPath}

(***************************************************************************)
(* C30: people_match ends after at most 3 requests.  It returns the parsed  *)
(* person on the first 200, {} at once on a 422 or another error status     *)
(* that is not 429, goes on to another request only after a 429 or a        *)
(* request exception, returns {} when the 3 requests are used up, and no    *)
(* request exception leaves it.                                             *)
(***************************************************************************)
\* the server answered the request with a 200
IsOk(resp) == resp.exception = "" /\ resp.status_code = 200

\* the server answered with a 429, or requests.post raised
Retried(resp) ==
    \/ resp.exception \in RequestExceptions
    \/ resp.exception = "" /\ resp.status_code = 429

\* the k-th request has been made and people_match has dealt with what came
Answered(k) == k < attempt \/ (k = attempt /\ apc \in {"backoff", "loop", "done"})

\* what _parse_person gives for the person of a 200 with a JSON object
Person(resp) == parse_person(Get(resp.data, "person", <<>>), export_email).dict

\* C30: at most 3 requests; the parsed person on the first 200; {} at once
\* on a 422 or another status that is not 429; another request only after
\* a 429 or a request exception; {} when the requests are used up; no
\* request exception leaves people_match
C30_PeopleMatch ==
    /\ attempt <= APOLLO_SETTINGS.max_retries
    /\ araised \notin RequestExceptions
    /\ \A k \in 1..attempt :
          Answered(k) =>
             \E resp \in {responses[k]} :
                /\ IsOk(resp) =>
                      /\ apc = "done" /\ attempt = k /\ araised = ""
                      /\ (resp.body = "json" /\ ~IsNull(resp.data)
                             /\ ~IsNonObject(resp.data)) => person = Person(resp)
                /\ (resp.exception = "" /\ resp.status_code \notin {200, 429}) =>
                      /\ apc = "done" /\ attempt = k /\ araised = ""
                      /\ person = <<>>
                /\ (k < attempt \/ apc \in {"backoff", "loop"}) => Retried(resp)
                /\ (Retried(resp) /\ apc = "done" /\ attempt = k) =>
                      /\ k = APOLLO_SETTINGS.max_retries
                      /\ araised = "" /\ person = <<>>

\* the calls the claim is right about: a 200 whose body is a JSON object
\* with cells of the documented types, another status, or no answer
WellFormed(resp) ==
    IsOk(resp) =>
       /\ resp.body = "json"
       /\ ~IsNull(resp.data)
       /\ ~IsNonObject(resp.data)
       /\ parse_person(Get(resp.data, "person", <<>>), export_email).raised = ""

\* what holds instead: people_match makes at most 3 requests and lets no
\* request exception out; on answers that are well formed it does what the
\* claim says, and otherwise it raises AttributeError, TypeError or
\* ValueError, or takes the 200 for a failed request
PeopleMatchOutcome ==
    /\ attempt <= APOLLO_SETTINGS.max_retries
    /\ araised \in {"", "AttributeError", "TypeError", "ValueError"}
    /\ (\A k \in 1..attempt : WellFormed(responses[k])) => C30_PeopleMatch
    /\ (apc = "done" /\ araised # "") =>
          /\ IsOk(responses[attempt])
          /\ ~WellFormed(responses[attempt])
          /\ person = <<>>

\* and under fairness every call ends
PeopleMatchTerminates == <>(apc = "done")

(***************************************************************************)
(* C25: a contact whose confidence_flag is LOW gets no sendable outreach:   *)
(* build_messages returns li_ready = NO and email_ready = NO and empty      *)
(* li_connect_msg, during_event_dm, email_subject and email_body for it,    *)
(* whatever its other fields are; and validate_persona returns              *)
(* confidence_flag LOW whenever the LLM output fails parsing or structural  *)
(* validation or reports LOW confidence itself.                             *)
(***************************************************************************)
\* the row got no message and is marked not ready on both channels
NotSendable(row) ==
    /\ row.li_ready = "NO"
    /\ row.email_ready = "NO"
    /\ row.li_connect_msg = <<>>
    /\ row.during_event_dm = <<>>
    /\ row.email_subject = <<>>
    /\ row.email_body = <<>>

\* the parsed output has structural issues or reports LOW itself
StructureFailsOrLow(output) ==
    \/ validate_structure(output.parsed) # <<>>
    \/ Get(output.parsed, <<"c", "o", "n", "f", "i", "d", "e", "n", "c", "e">>, LOW) = LOW

\* the raw output fails parsing or structural validation or reports LOW
MustBeLow(raw_output) ==
    IF not_parsed(parse_llm_output(raw_output)) THEN TRUE
    ELSE StructureFailsOrLow(parse_llm_output(raw_output))

\* build_messages raised for the row after the rows built
BuildRaised == opc = "raised" /\ oraised = "IndexError"

\* C25: build_messages returns a row that is not sendable for every LOW
\* contact, and validate_persona returns LOW for every output that fails
\* parsing or structural validation or reports LOW
C25_LowNeverSendable ==
    /\ \A k \in 1..Len(built) :
          built[k].confidence_flag = LOW => NotSendable(built[k])
    /\ BuildRaised => sorted_df[Len(built) + 1].confidence_flag # LOW
    /\ (opc = "validated" /\ MustBeLow(llm_output)) =>
          /\ oraised = ""
          /\ persona.confidence_flag = LOW

\* what holds instead: the calls that return do what the claim says, and a
\* call that raises returns and writes nothing
LowNeverSendableOnReturn ==
    /\ \A k \in 1..Len(built) :
          built[k].confidence_flag = LOW => NotSendable(built[k])
    /\ \A k \in 1..Len(out_df) :
          out_df[k].confidence_flag = LOW => NotSendable(out_df[k])
    /\ opc = "raised" => out_df = <<>>
    /\ (opc = "validated" /\ oraised # "") => persona = <<>>
    /\ (opc = "validated" /\ oraised = "" /\ MustBeLow(llm_output)) =>
          persona.confidence_flag = LOW

(***************************************************************************)
(* C26: the output of build_all_messages holds only contacts that pass all  *)
(* readiness gates: a contact that is_ready_for_linkedin or                 *)
(* is_ready_for_email turns down has no row in it.                          *)
(***************************************************************************)
\* the contact passes both gates
PassesGates(c) == is_ready_for_linkedin(c).ok /\ is_ready_for_email(c).ok

C26_OnlyReadyContactsWritten ==
    opc = "done" => \A k \in 1..Len(out_df) : PassesGates(sorted_df[k])

\* what holds instead: every row read, sorted and cut is written, in order,
\* with its contact fields unchanged
EveryContactWritten ==
    opc = "done" =>
       /\ Len(out_df) = Len(sorted_df)
       /\ \A k \in 1..Len(out_df) :
             \A f \in DOMAIN sorted_df[k] : out_df[k][f] = sorted_df[k][f]

====
